---- MODULE Spec2Model ----
(***************************************************************************)
(* Model of the Mombasa ingestion engine (process_mombasa_data.py):        *)
(* the SQLite store with its UNIQUE / NOT NULL constraints, the UPSERT     *)
(* write path (execute_insert), the processing ledger (log_processed,      *)
(* is_processed), the record normalizer (load_lot_details,                 *)
(* load_grade_summary), the per-file handlers and run_processor.           *)
(*                                                                         *)
(* Every cell value is a string; NULL stands for SQL NULL / pandas None,   *)
(* NaN for an empty spreadsheet cell.  A table is the sequence of its rows *)
(* in rowid order; a row is a function from the table's columns to values. *)
(***************************************************************************)
EXTENDS Integers, Sequences, FiniteSets, TLC

NULL == "NULL"
NaN == "NaN"
Unknown == "Unknown"

DB_FILE == "market_reports.db"
SOURCE_LOCATION == "Mombasa"
DATA_TYPE_OFFER == "OFFER"
DATA_TYPE_SALE == "SALE"
DATA_TYPE_SUMMARY == "SUMMARY"
DATA_TYPE_COMMENTARY == "COMMENTARY"

(***************************************************************************)
(* Schema: initialize_database                                             *)
(***************************************************************************)
TableNames ==
  {"processing_log", "auction_sales", "auction_offers", "grade_summary", "market_commentary"}

\* columns of each table (the rowid column "id" is the position in the sequence)
TableCols(t) ==
  CASE t = "processing_log" ->
         {"file_identifier", "processed_timestamp", "records_inserted", "data_type", "status"}
    [] t = "auction_sales" ->
         {"source_location", "sale_date", "sale_number", "broker", "mark", "grade",
          "lot_number", "invoice_number", "quantity_kgs", "package_count", "price", "buyer",
          "source_file_identifier", "processed_timestamp"}
    [] t = "auction_offers" ->
         {"source_location", "sale_date", "sale_number", "broker", "mark", "grade",
          "lot_number", "invoice_number", "quantity_kgs", "package_count", "valuation_or_rp",
          "source_file_identifier", "processed_timestamp"}
    [] t = "grade_summary" ->
         {"source_location", "sale_date", "sale_number", "auction_type", "grade", "lots",
          "quantity_kgs", "source_file_identifier", "processed_timestamp"}
    [] t = "market_commentary" ->
         {"source_location", "report_date", "sale_number", "content_type", "content",
          "source_file", "processed_timestamp"}

\* NOT NULL columns of each table
NotNullCols(t) ==
  CASE t = "processing_log" -> {"file_identifier", "processed_timestamp", "data_type", "status"}
    [] t = "auction_sales" ->
         {"source_location", "lot_number", "price", "buyer",
          "source_file_identifier", "processed_timestamp"}
    [] t = "auction_offers" ->
         {"source_location", "lot_number", "source_file_identifier", "processed_timestamp"}
    [] t = "grade_summary" ->
         {"source_location", "auction_type", "grade",
          "source_file_identifier", "processed_timestamp"}
    [] t = "market_commentary" ->
         {"source_location", "content_type", "content", "source_file", "processed_timestamp"}

\* the UNIQUE(...) constraint of each table: its natural key
UniqueCols(t) ==
  CASE t = "processing_log" -> {"file_identifier", "data_type"}
    [] t = "auction_sales" -> {"source_location", "sale_number", "lot_number", "broker"}
    [] t = "auction_offers" -> {"source_location", "sale_number", "lot_number", "broker"}
    [] t = "grade_summary" -> {"source_location", "sale_number", "auction_type", "grade"}
    [] t = "market_commentary" ->
         {"source_location", "sale_number", "content_type", "source_file"}

\* the store right after initialize_database on a fresh file: five empty tables
EmptyStore == [t \in TableNames |-> <<>>]

(***************************************************************************)
(* SQLite statement semantics                                              *)
(***************************************************************************)
\* the full row an INSERT builds from a record of a frame: absent columns are NULL
FullRow(t, cols, rec) == [c \in TableCols(t) |-> IF c \in cols THEN rec[c] ELSE NULL]

\* a NOT NULL constraint fails for the row
ViolatesNotNull(t, row) == \E c \in NotNullCols(t) : row[c] = NULL

\* the table without its UNIQUE constraint: no row ever collides
Conflicts_NoIndex(t, tbl, row) == {}

\* rowids of the rows that collide with row on the UNIQUE constraint
\* (SQLite: a NULL in a key column never collides)
Conflicts(t, tbl, row) ==
  {i \in DOMAIN tbl :
     \A c \in UniqueCols(t) : row[c] # NULL /\ tbl[i][c] = row[c]}

MinOf(S) == CHOOSE x \in S : \A y \in S : x <= y

(***************************************************************************)
(* Connection state.  storage is the condition of DB_FILE:                 *)
(*   "ok"         the file can be opened and written;                      *)
(*   "unusable"   sqlite3.connect succeeds but every statement raises      *)
(*                sqlite3.Error (not a database, read-only, no tables);    *)
(*   "unopenable" sqlite3.connect itself raises sqlite3.Error.             *)
(* db is what the open connection sees, committed what is durably stored.  *)
(***************************************************************************)
VARIABLES storage, db, committed

\* a connection as the functions below receive it
Conn == [db |-> db, committed |-> committed]

\* conn.commit()
Commit(conn) == [conn EXCEPT !.committed = conn.db]

\* a rollback that loses the committed rows as well
Rollback_Empty(conn) == [conn EXCEPT !.db = EmptyStore]

\* conn.rollback()
Rollback(conn) == [conn EXCEPT !.db = conn.committed]

(***************************************************************************)
(* execute_insert                                                          *)
(***************************************************************************)
update_enrich_cols ==
  {"valuation_or_rp", "mark", "quantity_kgs", "package_count",
   "invoice_number", "grade", "sale_date", "broker"}

update_always_cols == {"source_file_identifier", "processed_timestamp"}

\* INSERT OR REPLACE in place of INSERT OR IGNORE: a colliding row is overwritten
InsertOrIgnore_Replace(t, tbl, cols, rec) ==
  LET row == FullRow(t, cols, rec)
      hit == Conflicts(t, tbl, row)
  IN IF ViolatesNotNull(t, row)
       THEN [err |-> FALSE, tbl |-> tbl, n |-> 0]
       ELSE IF hit = {}
         THEN [err |-> FALSE, tbl |-> Append(tbl, row), n |-> 1]
         ELSE [err |-> FALSE, tbl |-> [tbl EXCEPT ![MinOf(hit)] = row], n |-> 1]

\* INSERT OR IGNORE of one row: a UNIQUE or NOT NULL conflict skips the row
InsertOrIgnore(t, tbl, cols, rec) ==
  LET row == FullRow(t, cols, rec)
  IN IF ViolatesNotNull(t, row) \/ Conflicts(t, tbl, row) # {}
       THEN [err |-> FALSE, tbl |-> tbl, n |-> 0]
       ELSE [err |-> FALSE, tbl |-> Append(tbl, row), n |-> 1]

\* auction_offers with col = excluded.col for every column of the frame
OfferUpdate_Overwrite(cols, old, row) ==
  [c \in DOMAIN old |-> IF c \in cols THEN row[c] ELSE old[c]]

\* auction_offers: col = COALESCE(excluded.col, col) for the enrichable columns
\* of the frame, col = excluded.col for its provenance columns
OfferUpdate(cols, old, row) ==
  [c \in DOMAIN old |->
     IF c \in update_enrich_cols \cap cols
       THEN (IF row[c] # NULL THEN row[c] ELSE old[c])
       ELSE IF c \in update_always_cols \cap cols THEN row[c] ELSE old[c]]

\* auction_sales: col = excluded.col for every column of the frame
SaleUpdate(cols, old, row) ==
  [c \in DOMAIN old |-> IF c \in cols THEN row[c] ELSE old[c]]

\* an INSERT without ON CONFLICT clause on a table without unique index: the
\* incoming row is stored next to the row of its key
Upsert_Insert(t, tbl, cols, rec) ==
  LET row == FullRow(t, cols, rec)
  IN IF ViolatesNotNull(t, row)
       THEN [err |-> TRUE, tbl |-> tbl, n |-> 0]
       ELSE [err |-> FALSE, tbl |-> Append(tbl, row), n |-> 1]

\* INSERT ... ON CONFLICT(key) DO UPDATE SET ... of one row into auction_offers
\* or auction_sales: the colliding row is replaced by what the SET list leaves
Upsert(t, tbl, cols, rec) ==
  LET row == FullRow(t, cols, rec)
      hit == Conflicts(t, tbl, row)
  IN IF ViolatesNotNull(t, row)
       THEN [err |-> TRUE, tbl |-> tbl, n |-> 0]
       ELSE IF hit = {}
         THEN [err |-> FALSE, tbl |-> Append(tbl, row), n |-> 1]
         ELSE LET i == MinOf(hit)
                  set == IF t = "auction_offers" THEN OfferUpdate(cols, tbl[i], row)
                                                 ELSE SaleUpdate(cols, tbl[i], row)
              IN [err |-> FALSE, tbl |-> [tbl EXCEPT ![i] = set], n |-> 1]

\* a plain INSERT without conflict clause on a table without UNIQUE constraint
Statement_PlainInsert(table_name, tbl, cols, rec) ==
  LET row == FullRow(table_name, cols, rec)
  IN IF ViolatesNotNull(table_name, row)
       THEN [err |-> TRUE, tbl |-> tbl, n |-> 0]
       ELSE [err |-> FALSE, tbl |-> Append(tbl, row), n |-> 1]

\* the statement execute_insert builds for table_name, applied to one record
Statement(table_name, tbl, cols, rec) ==
  LET update_statements ==
        IF table_name = "auction_offers"
          THEN (update_enrich_cols \cup update_always_cols) \cap cols
          ELSE IF table_name = "auction_sales" THEN cols ELSE {}
  IN IF update_statements = {}
       THEN InsertOrIgnore(table_name, tbl, cols, rec)
       ELSE Upsert(table_name, tbl, cols, rec)

\* cursor.executemany(sql, records_list): the records in order, stopping at the
\* first one that raises; fault is the index of a record at which the engine
\* raises a sqlite3.Error of its own (binding error, disk, lock), 0 for none
RECURSIVE ExecuteMany(_, _, _, _, _, _, _)
ExecuteMany(table_name, tbl, cols, rows, i, n, fault) ==
  IF i > Len(rows) THEN [err |-> FALSE, tbl |-> tbl, n |-> n]
  ELSE IF storage # "ok" \/ fault = i THEN [err |-> TRUE, tbl |-> tbl, n |-> n]
  ELSE LET executed(r) ==
             IF r.err THEN [err |-> TRUE, tbl |-> r.tbl, n |-> n]
             ELSE ExecuteMany(table_name, r.tbl, cols, rows, i + 1, n + r.n, fault)
       IN executed(Statement(table_name, tbl, cols, rows[i]))

\* execute_insert(conn, table_name, df): the connection afterwards, the value
\* returned, and whether the except branch ran
execute_insert(conn, table_name, df, fault) ==
  IF df.rows = <<>> \/ df.cols = {}
    THEN [conn |-> conn, ret |-> 0, raised |-> FALSE]
    ELSE LET written(r) == [conn EXCEPT !.db[table_name] = r.tbl]
             executed(r) ==
               IF r.err
                 THEN [conn |-> Rollback(written(r)), ret |-> 0, raised |-> TRUE]
                 ELSE [conn |-> Commit(written(r)), ret |-> r.n, raised |-> FALSE]
         IN executed(ExecuteMany(table_name, conn.db[table_name], df.cols, df.rows,
                                 1, 0, fault))

(***************************************************************************)
(* Processing ledger                                                       *)
(***************************************************************************)
\* a plain INSERT on a ledger without UNIQUE constraint
InsertOrReplace_Append(t, tbl, row) == Append(tbl, row)

\* INSERT OR REPLACE of one row: the colliding rows are deleted, the row appended
InsertOrReplace(t, tbl, row) ==
  LET hit == Conflicts(t, tbl, row)
      keep(r) == \A i \in hit : tbl[i] # r
  IN Append(SelectSeq(tbl, keep), row)

\* log_processed without its conn.commit()
log_processed_NoCommit(conn, file_identifier, records_count, data_type, status, now) ==
  IF storage # "ok"
    THEN conn
    ELSE LET row == [file_identifier |-> file_identifier, processed_timestamp |-> now,
                     records_inserted |-> records_count, data_type |-> data_type,
                     status |-> status]
         IN [conn EXCEPT !.db["processing_log"] =
                  InsertOrReplace("processing_log", @, row)]

\* log_processed(file_identifier, records_count, conn, data_type, status) at time now
log_processed(conn, file_identifier, records_count, data_type, status, now) ==
  IF storage # "ok"
    THEN conn
    ELSE LET row == [file_identifier |-> file_identifier, processed_timestamp |-> now,
                     records_inserted |-> records_count, data_type |-> data_type,
                     status |-> status]
         IN Commit([conn EXCEPT !.db["processing_log"] =
                       InsertOrReplace("processing_log", @, row)])

\* a handler that never consults the ledger
is_processed_Never(conn, file_identifier, data_type) == FALSE

\* is_processed(file_identifier, conn, data_type)
is_processed(conn, file_identifier, data_type) ==
  IF storage # "ok"
    THEN FALSE
    ELSE \E i \in DOMAIN conn.db["processing_log"] :
           LET e == conn.db["processing_log"][i]
           IN e.file_identifier = file_identifier /\ e.status = "SUCCESS"
              /\ e.data_type = data_type

(***************************************************************************)
(* Configuration tables                                                    *)
(***************************************************************************)
MARK_ALIASES ==
  <<"Selling Mark", "Garden", "Mark", "Estate", "Factory", "Selling Mark - MF Mark">>

\* the dict in its insertion order: a sequence of <<canonical field, aliases>>
COLUMN_MAP_LOT_DETAILS ==
  << <<"broker", <<"Broker">> >>,
     <<"mark", MARK_ALIASES>>,
     <<"grade", <<"Grade">> >>,
     <<"lot_number", <<"LotNo", "Lot No", "Lot", "Lot.No">> >>,
     <<"invoice_number", <<"Invoice", "Inv.No", "Invoice No">> >>,
     <<"quantity_kgs", <<"Net Weight", "Kilos", "Kgs", "Quantity (Kg)", "Total Weight">> >>,
     <<"package_count", <<"Bags", "Pkgs">> >>,
     <<"price", <<"Purchased Price", "Final Price", "Price", "Price (USD)", "Price (USc)">> >>,
     <<"valuation_or_rp", <<"Valuation", "Asking Price", "RP">> >>,
     <<"buyer", <<"Buyer", "Buyer Name", "Final Buyer">> >>,
     <<"sale_date_internal", <<"Selling End Time", "Sale Date">> >>,
     <<"sale_number_internal", <<"Sale Code", "Auction">> >> >>

COLUMN_MAP_GRADE_SUMMARY ==
  << <<"grade", <<"Region/Grade">> >>,
     <<"lots", <<"Lots">> >>,
     <<"quantity_kgs", <<"Kilos", "Pkgs", "Kgs">> >> >>

HEADER_KEYWORDS ==
  <<"LotNo", "Garden", "Grade", "Invoice", "Pkgs", "Kilos", "RP", "Valuation">>

noise_values == {"NAN", "NONE", "", "-", "NIL"}

(***************************************************************************)
(* String functions on the cell values of the model                        *)
(***************************************************************************)
\* str(x).strip().lower() of a header or alias
StripLower(x) ==
  CASE x = "Broker" -> "broker"
    [] x = "Selling Mark" -> "selling mark"
    [] x = "Garden" -> "garden"
    [] x = " GARDEN " -> "garden"
    [] x = "Mark" -> "mark"
    [] x = "Estate" -> "estate"
    [] x = "Factory" -> "factory"
    [] x = "Selling Mark - MF Mark" -> "selling mark - mf mark"
    [] x = "Grade" -> "grade"
    [] x = "LotNo" -> "lotno"
    [] x = "lotno" -> "lotno"
    [] x = "Lot No" -> "lot no"
    [] x = "Lot" -> "lot"
    [] x = "Lot.No" -> "lot.no"
    [] x = "Invoice" -> "invoice"
    [] x = "Inv.No" -> "inv.no"
    [] x = "Invoice No" -> "invoice no"
    [] x = "Net Weight" -> "net weight"
    [] x = "Kilos" -> "kilos"
    [] x = "Kgs" -> "kgs"
    [] x = "Quantity (Kg)" -> "quantity (kg)"
    [] x = "Total Weight" -> "total weight"
    [] x = "Bags" -> "bags"
    [] x = "Pkgs" -> "pkgs"
    [] x = "Purchased Price" -> "purchased price"
    [] x = "Final Price" -> "final price"
    [] x = "Price" -> "price"
    [] x = "Price (USD)" -> "price (usd)"
    [] x = "Price (USc)" -> "price (usc)"
    [] x = "Valuation" -> "valuation"
    [] x = "Asking Price" -> "asking price"
    [] x = "RP" -> "rp"
    [] x = "Buyer" -> "buyer"
    [] x = "Buyer Name" -> "buyer name"
    [] x = "Final Buyer" -> "final buyer"
    [] x = "Selling End Time" -> "selling end time"
    [] x = "Sale Date" -> "sale date"
    [] x = "Sale Code" -> "sale code"
    [] x = "Auction" -> "auction"
    [] x = "Region/Grade" -> "region/grade"
    [] x = "Lots" -> "lots"
    [] OTHER -> x

\* str(x) of a cell: an empty cell (float nan) prints as "nan"
Str(x) == IF x = NaN THEN "nan" ELSE x

\* x.strip().upper() of a string
StripUpper(x) ==
  CASE x = "nan" -> "NAN"
    [] x = " nil " -> "NIL"
    [] x = "none" -> "NONE"
    [] x = " " -> ""
    [] x = "ruiru" -> "RUIRU"
    [] x = " kiambu " -> "KIAMBU"
    [] x = "b1" -> "B1"
    [] x = "total" -> "TOTAL"
    [] OTHER -> x

CleanText_KeepNoise(x) == StripUpper(Str(x))

\* the text cleaning of load_lot_details: strip, upper, noise values to None
CleanText(x) ==
  LET u == StripUpper(Str(x)) IN IF u \in noise_values THEN NULL ELSE u

\* clean_numeric_column on one cell: drop $ and commas, strip, pd.to_numeric with
\* errors='coerce'; numbers are written in one canonical form
ToNumeric(x) ==
  CASE x = NULL -> NULL
    [] x \in {"1", "2", "3", "4", "5", "6", "10", "20"} -> x
    [] x = "$10" -> "10"
    [] x = " 20 " -> "20"
    [] x = "1,0" -> "10"
    [] x = "2.6" -> "2.6"
    [] OTHER -> NULL

\* Series.round().astype('Int64') on one value
RoundInt(x) == IF x = "2.6" THEN "3" ELSE x

MaxOf(S) == CHOOSE x \in S : \A y \in S : x >= y

Range(f) == {f[x] : x \in DOMAIN f}

\* f without the key k
Without(f, k) == [x \in DOMAIN f \ {k} |-> f[x]]

(***************************************************************************)
(* map_columns                                                             *)
(***************************************************************************)
prioritized_cols ==
  {"price", "quantity_kgs", "package_count", "valuation_or_rp",
   "sale_date_internal", "sale_number_internal"}

\* {str(col).strip().lower(): col for col in df_columns}: a later column with
\* the same normalized name replaces an earlier one
NormalizedDfCols(df_columns) ==
  [n \in {StripLower(df_columns[i]) : i \in DOMAIN df_columns} |->
     df_columns[MaxOf({i \in DOMAIN df_columns : StripLower(df_columns[i]) = n})]]

\* a loop body that lets every later alias of a field take the field over
MapAlias_Discovery(st, ndc, db_col, alias, priority_index) ==
  LET header == ndc[StripLower(alias)]
  IN IF db_col = "mark"
       THEN [st EXCEPT !.mapped_mark_cols = (header :> priority_index) @@ @]
       ELSE [st EXCEPT !.mapping = (header :> db_col) @@ @]

\* the body of the inner loop for an alias found among the normalized headers
\* (priority_index is its position in the alias list)
MapAlias(st, ndc, db_col, alias, priority_index) ==
  LET header == ndc[StripLower(alias)]
  IN IF db_col = "mark"
       THEN [st EXCEPT !.mapped_mark_cols = (header :> priority_index) @@ @]
       ELSE IF db_col \in prioritized_cols
         THEN IF db_col \notin DOMAIN st.priorities
                 \/ priority_index < st.priorities[db_col]
                THEN LET previous == {h \in DOMAIN st.mapping : st.mapping[h] = db_col}
                         kept == IF previous = {} THEN st.mapping
                                 ELSE Without(st.mapping, CHOOSE h \in previous : TRUE)
                     IN [st EXCEPT !.mapping = (header :> db_col) @@ kept,
                                   !.priorities = (db_col :> priority_index) @@ @]
                ELSE st
         ELSE IF db_col \notin Range(st.mapping)
                THEN [st EXCEPT !.mapping = (header :> db_col) @@ @]
                ELSE st

\* the iterations <<f, k>> of the two loops (field f of mapping_dict, alias k of
\* its list) that pass the test "normalized_alias in normalized_df_cols"
Matching(ndc, mapping_dict) ==
  UNION {{<<f, k>> : k \in {i \in DOMAIN mapping_dict[f][2] :
                               StripLower(mapping_dict[f][2][i]) \in DOMAIN ndc}} :
         f \in DOMAIN mapping_dict}

\* the iteration the loops reach first
FirstOf(iterations) ==
  CHOOSE p \in iterations :
    \A q \in iterations : p[1] < q[1] \/ (p[1] = q[1] /\ p[2] <= q[2])

\* for db_col, aliases in mapping_dict.items():
\*   for priority_index, alias in enumerate(aliases):  (the iterations still to come)
\* (comparing the states keeps the evaluation of each iteration strict)
RECURSIVE MapLoop(_, _, _, _)
MapLoop(st, ndc, mapping_dict, iterations) ==
  IF iterations = {} THEN st
  ELSE LET iteration(p) ==
             LET next == MapAlias(st, ndc, mapping_dict[p[1]][1],
                                  mapping_dict[p[1]][2][p[2]], p[2] - 1)
             IN IF next = st THEN MapLoop(st, ndc, mapping_dict, iterations \ {p})
                             ELSE MapLoop(next, ndc, mapping_dict, iterations \ {p})
       IN iteration(FirstOf(iterations))

\* map_columns(df_columns, mapping_dict): [mapping, mapped_mark_cols] (priorities dropped)
map_columns(df_columns, mapping_dict) ==
  LET loops(ndc) ==
        MapLoop([mapping |-> <<>>, priorities |-> <<>>, mapped_mark_cols |-> <<>>],
                ndc, mapping_dict, Matching(ndc, mapping_dict))
      returned(st) == [mapping |-> st.mapping, mapped_mark_cols |-> st.mapped_mark_cols]
  IN returned(loops(NormalizedDfCols(df_columns)))

(***************************************************************************)
(* Data frames.  A sheet is its grid of cells as stored in the workbook;   *)
(* a frame is [columns: sequence of names, rows: sequence of functions     *)
(* from the names to cells].                                               *)
(***************************************************************************)
EmptyFrame == [columns |-> <<>>, rows |-> <<>>]

IndexOf(seq, x) == MinOf({i \in DOMAIN seq : seq[i] = x})

\* pd.read_excel(xls_file, sheet_name, header=header): row header of the grid
\* names the columns, the rows below it are the data
read_excel(grid, header) ==
  IF header + 1 > Len(grid) THEN EmptyFrame
  ELSE LET columns == grid[header + 1]
       IN [columns |-> columns,
           rows |-> [j \in 1..(Len(grid) - header - 1) |->
                       [c \in Range(columns) |-> grid[header + 1 + j][IndexOf(columns, c)]]]]

\* df.rename(columns=mapping)
Rename(df, mapping) ==
  LET new(c) == IF c \in DOMAIN mapping THEN mapping[c] ELSE c
      old(n) == CHOOSE c \in Range(df.columns) : new(c) = n
  IN [columns |-> [i \in DOMAIN df.columns |-> new(df.columns[i])],
      rows |-> [j \in DOMAIN df.rows |->
                  [n \in {new(c) : c \in Range(df.columns)} |-> df.rows[j][old(n)]]]]

\* df[name] = value: the column is set in every row (a new column is appended)
WithColumn(df, name, value) ==
  [columns |-> IF name \in Range(df.columns) THEN df.columns ELSE Append(df.columns, name),
   rows |-> [j \in DOMAIN df.rows |->
               [c \in Range(df.columns) \cup {name} |->
                  IF c = name THEN value ELSE df.rows[j][c]]]]

(***************************************************************************)
(* find_header_row                                                         *)
(***************************************************************************)
Min(a, b) == IF a <= b THEN a ELSE b

NotFound == -1

\* a search that does not stop at the end of the preview
find_header_row_WholeSheet(grid, keywords, max_scan_rows) ==
  LET normalized_keywords == {StripLower(keywords[k]) : k \in DOMAIN keywords}
      row_values(i) == {StripLower(Str(grid[i][j])) : j \in {j \in DOMAIN grid[i] : grid[i][j] # NaN}}
      hits == {i \in 1..Len(grid) :
                 Cardinality(normalized_keywords \cap row_values(i)) >= Min(3, Len(keywords))}
  IN IF hits = {} THEN NotFound ELSE MinOf(hits) - 1

\* find_header_row(xls_file, sheetname, keywords, max_scan_rows): the zero-based
\* index of the first row of the preview sharing enough values with the
\* keywords, NotFound for None
find_header_row(grid, keywords, max_scan_rows) ==
  LET normalized_keywords == {StripLower(keywords[k]) : k \in DOMAIN keywords}
      row_values(i) == {StripLower(Str(grid[i][j])) : j \in {j \in DOMAIN grid[i] : grid[i][j] # NaN}}
      hits == {i \in 1..Min(Len(grid), max_scan_rows) :
                 Cardinality(normalized_keywords \cap row_values(i)) >= Min(3, Len(keywords))}
  IN IF hits = {} THEN NotFound ELSE MinOf(hits) - 1

(***************************************************************************)
(* parse_date, extract_sale_number_from_string, extract_metadata           *)
(***************************************************************************)
\* datetime.strptime(date_str, "%d%m%y") of a 6-digit token, the year replaced
\* by year_hint when one is given; NULL when strptime raises ValueError
ParseDDMMYY(date_str, year_hint) ==
  CASE date_str = "010925" -> (IF year_hint # NULL THEN year_hint ELSE "2025") \o "-09-01"
    [] date_str = "010924" -> (IF year_hint # NULL THEN year_hint ELSE "2024") \o "-09-01"
    [] date_str = "080925" -> (IF year_hint # NULL THEN year_hint ELSE "2025") \o "-09-08"
    [] OTHER -> NULL

\* the first of the six strptime formats that accepts the string, after the
\* trailing millisecond fragment is removed; NULL when none does
ParseFormats(date_str) ==
  CASE date_str \in {"01/09/2025 10:00:00", "01/09/2025 10:00:00.123", "01/09/2025",
                     "2025-09-01", "2025/09/01"} -> "2025-09-01"
    [] date_str \in {"08/09/2025 10:00:00", "08/09/2025", "2025-09-08"} -> "2025-09-08"
    [] date_str \in {"13/01/2025", "01/13/2025"} -> "2025-01-13"
    [] OTHER -> NULL

SixDigits == {"010925", "010924", "080925", "310225", "999999"}

\* parse_date(date_str, year_hint); NULL for None
parse_date(date_str, year_hint) ==
  IF date_str \in {NaN, NULL} THEN NULL
  ELSE IF date_str \in SixDigits /\ ParseDDMMYY(date_str, year_hint) # NULL
         THEN ParseDDMMYY(date_str, year_hint)
         ELSE ParseFormats(date_str)

\* the sale codes of the model: <<has '/' and starts with 4 digits, '/', 1-2 digits,
\* the string with '/' replaced by '-', the number after "Sale " zero-padded>>
SaleCode(sn_str) ==
  CASE sn_str = "2025/35" -> [slash |-> TRUE, dashed |-> "2025-35", sale |-> NULL]
    [] sn_str = "2025/36" -> [slash |-> TRUE, dashed |-> "2025-36", sale |-> NULL]
    [] sn_str = "2025/5" -> [slash |-> TRUE, dashed |-> "2025-5", sale |-> NULL]
    [] sn_str = "2025/35x" -> [slash |-> TRUE, dashed |-> "2025-35x", sale |-> NULL]
    [] sn_str = "Sale 7" -> [slash |-> FALSE, dashed |-> NULL, sale |-> "07"]
    [] sn_str = "Sale 35" -> [slash |-> FALSE, dashed |-> NULL, sale |-> "35"]
    [] OTHER -> [slash |-> FALSE, dashed |-> NULL, sale |-> NULL]

\* the year of a "%Y-%m-%d" string, NULL when strptime rejects it
YearOf(d) ==
  CASE d \in {"2025-09-01", "2025-09-08", "2025-01-13"} -> "2025"
    [] d = "2024-09-01" -> "2024"
    [] OTHER -> NULL

\* extract_sale_number_from_string(sn_str, sale_date_hint)
extract_sale_number_from_string(sn_str, sale_date_hint) ==
  IF sn_str \in {NaN, NULL, ""} THEN Unknown
  ELSE IF SaleCode(sn_str).slash THEN SaleCode(sn_str).dashed
  ELSE IF SaleCode(sn_str).sale # NULL
         THEN (IF YearOf(sale_date_hint) # NULL THEN YearOf(sale_date_hint) ELSE "UnknownYear")
              \o "-" \o SaleCode(sn_str).sale
         ELSE Unknown

\* the groups of pattern1 (AuctionSummary_ / CompleteOfferLots_ [YYYY-WW]_DDMMYY.xlsx)
\* matched at the start of the file name, <<>> for no match
Pattern1(filename) ==
  CASE filename = "AuctionSummary_[2025-35]_010925.xlsx" -> <<"2025", "35", "010925">>
    [] filename = "CompleteOfferLots_[2025-35]_010925.xlsx" -> <<"2025", "35", "010925">>
    [] filename = "AuctionSummary_[2025-36]_999999.xlsx" -> <<"2025", "36", "999999">>
    [] filename = "AuctionSummary_[2025-36]_999999.xlsx - Sale 35_Catalogue_01_09_2025.xlsx"
         -> <<"2025", "36", "999999">>
    [] OTHER -> <<>>

\* the groups of pattern2 (Sale N_Catalogue_DD_MM_YYYY) found in the file name
Pattern2(filename) ==
  CASE filename = "Sale 35_Catalogue_01_09_2025.xlsx" -> <<"35", "01", "09", "2025">>
    [] filename = "AuctionSummary_[2025-36]_999999.xlsx - Sale 35_Catalogue_01_09_2025.xlsx"
         -> <<"35", "01", "09", "2025">>
    [] OTHER -> <<>>

\* the first non-null value of a column, NULL when there is none
FirstValue(df, col) ==
  LET present == {j \in DOMAIN df.rows : df.rows[j][col] \notin {NaN, NULL}}
  IN IF present = {} THEN NULL ELSE df.rows[MinOf(present)][col]

NoFrame == [columns |-> <<"no frame">>, rows |-> <<>>]

\* strategy 1 of extract_metadata: the AuctionSummary/CompleteOfferLots file
\* name pattern; [sale_number, sale_date], NULL for None
FilenamePattern1(filename) ==
  LET match1 == Pattern1(filename)
  IN IF match1 # <<>>
       THEN [sale_number |-> match1[1] \o "-" \o match1[2],
             sale_date |-> parse_date(match1[3], match1[1])]
       ELSE [sale_number |-> NULL, sale_date |-> NULL]

FilenamePattern2_Always(md, filename) ==
  LET match2 == Pattern2(filename)
  IN IF match2 # <<>>
       THEN [sale_number |-> match2[4] \o "-" \o match2[1],
             sale_date |-> parse_date(match2[2] \o "/" \o match2[3] \o "/" \o match2[4],
                                      NULL)]
       ELSE md

\* strategy 2 of extract_metadata: the Sale Catalogue file name pattern, tried
\* when strategy 1 left no sale number
FilenamePattern2(md, filename) ==
  LET match2 == Pattern2(filename)
  IN IF md.sale_number = NULL /\ match2 # <<>>
       THEN [sale_number |-> match2[4] \o "-" \o match2[1],
             sale_date |-> parse_date(match2[2] \o "/" \o match2[3] \o "/" \o match2[4],
                                      NULL)]
       ELSE md

\* strategy 3 of extract_metadata on the renamed frame: the first value of the
\* internal sale date column, then of the internal sale number column, each
\* only for the part still missing
InternalData(md, df_mapped) ==
  LET date_val == IF md.sale_date = NULL /\ "sale_date_internal" \in Range(df_mapped.columns)
                    THEN FirstValue(df_mapped, "sale_date_internal") ELSE NULL
      sale_date == IF date_val \notin {NULL, ""} THEN parse_date(date_val, NULL)
                                                 ELSE md.sale_date
      sn_val == IF md.sale_number = NULL
                   /\ "sale_number_internal" \in Range(df_mapped.columns)
                  THEN FirstValue(df_mapped, "sale_number_internal") ELSE NULL
  IN [sale_number |-> IF sn_val \notin {NULL, ""}
                        THEN extract_sale_number_from_string(Str(sn_val), sale_date)
                        ELSE md.sale_number,
      sale_date |-> sale_date]

extract_metadata_NoDefault(filename, df) ==
  LET fallback(md) ==
        IF df # NoFrame /\ (md.sale_number = NULL \/ md.sale_date = NULL)
          THEN InternalData(md, Rename(df, map_columns(df.columns,
                                                       COLUMN_MAP_LOT_DETAILS).mapping))
          ELSE md
  IN fallback(FilenamePattern2(FilenamePattern1(filename), filename))

\* extract_metadata(filename, df), df = NoFrame for df=None
extract_metadata(filename, df) ==
  LET fallback(md) ==
        IF df # NoFrame /\ (md.sale_number = NULL \/ md.sale_date = NULL)
          THEN InternalData(md, Rename(df, map_columns(df.columns,
                                                       COLUMN_MAP_LOT_DETAILS).mapping))
          ELSE md
      returned(md) == [sale_number |-> IF md.sale_number = NULL THEN Unknown
                                                               ELSE md.sale_number,
                       sale_date |-> IF md.sale_date = NULL THEN Unknown ELSE md.sale_date]
  IN returned(fallback(FilenamePattern2(FilenamePattern1(filename), filename)))

(***************************************************************************)
(* Record normalizer: load_lot_details, load_grade_summary                 *)
(***************************************************************************)
Cols(df) == Range(df.columns)

\* sorted(mapped_mark_cols, key=mapped_mark_cols.get)
RECURSIVE SortedByRank(_)
SortedByRank(ranks) ==
  IF DOMAIN ranks = {} THEN <<>>
  ELSE LET best == CHOOSE h \in DOMAIN ranks : \A g \in DOMAIN ranks : ranks[h] <= ranks[g]
       IN <<best>> \o SortedByRank(Without(ranks, best))

\* the COALESCE of the cleaned mark candidates of one row, best rank first.
\* df['mark'] = df[sorted_mark_cols[0]] replaces a candidate column that is
\* itself named 'mark': further down the list it fills df['mark'] with itself
RECURSIVE Coalesce(_, _, _)
Coalesce(row, sorted_mark_cols, i) ==
  IF i > Len(sorted_mark_cols) THEN NULL
  ELSE IF (i = 1 \/ sorted_mark_cols[i] # "mark")
          /\ CleanText(row[sorted_mark_cols[i]]) # NULL
         THEN CleanText(row[sorted_mark_cols[i]])
         ELSE Coalesce(row, sorted_mark_cols, i + 1)

\* Series.fillna(value) on one cell
FillNa(x, value) == IF x \in {NULL, NaN} THEN value ELSE x

lot_db_columns ==
  {"source_location", "sale_date", "sale_number", "broker", "mark", "grade",
   "lot_number", "invoice_number", "quantity_kgs", "package_count",
   "source_file_identifier", "processed_timestamp"}

\* a loader that requires a valuation as well
required_base_cols_Valuation == {"lot_number", "broker", "mark", "grade", "valuation_or_rp"}

required_base_cols == {"lot_number", "broker", "mark", "grade"}

\* a loader that requires no kind-specific column
required_specific_cols_None(data_type) == {}

required_specific_cols(data_type) ==
  IF data_type = DATA_TYPE_SALE THEN {"price", "buyer"} ELSE {}

\* the columns load_lot_details cleans as numbers and as text identifiers
numeric_cols == {"price", "quantity_kgs", "valuation_or_rp", "package_count"}

text_cols == {"grade", "lot_number", "broker", "buyer", "invoice_number"}

\* steps 1 and 2 of load_lot_details: the mark of every row of the frame
resolved_mark(df0) ==
  LET coalesced(df1, sorted_mark_cols) ==
        [j \in DOMAIN df1.rows |-> Coalesce(df1.rows[j], sorted_mark_cols, 1)]
      mapped(mc) == coalesced(Rename(df0, mc.mapping), SortedByRank(mc.mapped_mark_cols))
  IN mapped(map_columns(df0.columns, COLUMN_MAP_LOT_DETAILS))

\* steps 2 to 4 of load_lot_details on one row r of the renamed frame with the
\* columns cols: the coalesced mark, the row's own sale date and number (internal
\* metadata), the metadata fallback, the cleaned numbers and identifiers, the
\* provenance columns; every other column is left as it is
LotRow(r, cols, sorted_mark_cols, metadata, use_internal_metadata) ==
  LET own_date == IF use_internal_metadata /\ "sale_date_internal" \in cols
                    THEN parse_date(r["sale_date_internal"], NULL)
                    ELSE IF "sale_date" \in cols THEN r["sale_date"] ELSE NULL
      own_number == IF use_internal_metadata /\ "sale_number_internal" \in cols
                      THEN extract_sale_number_from_string(Str(r["sale_number_internal"]),
                                                           own_date)
                      ELSE IF "sale_number" \in cols THEN r["sale_number"] ELSE NULL
      out == cols \cup (IF sorted_mark_cols # <<>> THEN {"mark"} ELSE {})
               \cup {"sale_date", "sale_number", "source_location",
                     "source_file_identifier", "processed_timestamp"}
      value(c) ==
        CASE c = "mark" /\ sorted_mark_cols # <<>> -> Coalesce(r, sorted_mark_cols, 1)
          [] c = "sale_date" -> FillNa(own_date, metadata.sale_date)
          [] c = "sale_number" -> FillNa(own_number, metadata.sale_number)
          [] c = "package_count" -> RoundInt(ToNumeric(Str(r[c])))
          [] c \in numeric_cols \ {"package_count"} -> ToNumeric(Str(r[c]))
          [] c \in text_cols -> CleanText(r[c])
          [] c = "source_location" -> SOURCE_LOCATION
          [] c = "source_file_identifier" -> metadata.file_identifier
          [] c = "processed_timestamp" -> metadata.timestamp
          [] OTHER -> r[c]
      row == [c \in out |-> value(c)]
  IN [c \in out |-> row[c]]

\* a filter that lets every row pass
Known_Any(r) == TRUE

\* the rows of the metadata filter: sale number and date known
Known(r) ==
  /\ r["sale_number"] # Unknown /\ r["sale_date"] # Unknown
  /\ r["sale_date"] \notin {NULL, NaN} /\ r["sale_number"] \notin {NULL, NaN}

\* steps 1 to 5 of load_lot_details: [outcome, df]; outcome "LOAD" carries the
\* frame for execute_insert, any other outcome is the status logged on return
NormalizeLots(df0, metadata, data_type, use_internal_metadata) ==
  LET required_cols == required_base_cols \cup required_specific_cols(data_type)
      db_columns == lot_db_columns \cup
                    (IF data_type = DATA_TYPE_SALE THEN {"price", "buyer"}
                                                   ELSE {"valuation_or_rp"})
      nothing == [cols |-> {}, rows |-> <<>>]
      complete(r) == \A c \in required_cols : r[c] \notin {NULL, NaN}
      \* step 5 on the rows with known metadata
      filtered(valid, cols) ==
        IF valid = <<>>
          THEN [outcome |-> "SUCCESS_NO_DATA", df |-> nothing]
          ELSE IF required_cols \subseteq cols
            THEN [outcome |-> "LOAD",
                  df |-> [cols |-> cols \cap db_columns,
                          rows |-> [j \in DOMAIN SelectSeq(valid, complete) |->
                                      [c \in cols \cap db_columns |->
                                         FillNa(SelectSeq(valid, complete)[j][c], NULL)]]]]
            ELSE IF "lot_number" \notin cols \/ "broker" \notin cols
              THEN [outcome |-> "FAILED_MISSING_COLS", df |-> nothing]
              \* df.dropna(subset=required_cols) raises KeyError for the missing column
              ELSE [outcome |-> "FAILED_PROCESSING", df |-> nothing]
      \* steps 2 to 4 on the renamed frame
      cleaned(df1, sorted_mark_cols) ==
        filtered(SelectSeq([j \in DOMAIN df1.rows |->
                              LotRow(df1.rows[j], Cols(df1), sorted_mark_cols, metadata,
                                     use_internal_metadata)],
                           Known),
                 Cols(df1) \cup (IF sorted_mark_cols # <<>> THEN {"mark"} ELSE {})
                   \cup {"sale_date", "sale_number", "source_location",
                         "source_file_identifier", "processed_timestamp"})
      \* step 1
      mapped(mc) == cleaned(Rename(df0, mc.mapping), SortedByRank(mc.mapped_mark_cols))
  IN mapped(map_columns(df0.columns, COLUMN_MAP_LOT_DETAILS))

\* the record of one execute_insert call: the table, the frame, the store as the
\* connection saw it before and after the call, the value returned and whether
\* sqlite3.Error was caught
NoCall == [made |-> FALSE, table |-> "none", df |-> [cols |-> {}, rows |-> <<>>],
           pre |-> EmptyStore, post |-> EmptyStore, ret |-> 0, raised |-> FALSE]


CallOf(conn, table_name, df, r) ==
  [made |-> TRUE, table |-> table_name, df |-> df, pre |-> conn.db, post |-> r.conn.db,
   ret |-> r.ret, raised |-> r.raised]

\* load_lot_details(df, metadata, data_type, conn, use_internal_metadata):
\* the connection afterwards, the execute_insert call made, the status logged
load_lot_details(conn, df, metadata, data_type, use_internal_metadata, fault) ==
  LET target_table == IF data_type = DATA_TYPE_SALE THEN "auction_sales" ELSE "auction_offers"
      inserted(n, r) ==
        [conn |-> log_processed(r.conn, metadata.file_identifier, r.ret, data_type,
                                "SUCCESS", metadata.timestamp),
         call |-> CallOf(conn, target_table, n.df, r), status |-> "SUCCESS"]
      normalized(n) ==
        IF n.outcome = "LOAD"
          THEN inserted(n, execute_insert(conn, target_table, n.df, fault))
          ELSE [conn |-> log_processed(conn, metadata.file_identifier, 0, data_type,
                                       n.outcome, metadata.timestamp),
                call |-> NoCall, status |-> n.outcome]
  IN normalized(NormalizeLots(df, metadata, data_type, use_internal_metadata))

\* grade.str.contains("TOTAL|KENYA|BURUNDI|...") on a cleaned grade
ContainsFilterKeyword(grade) == grade \in {"TOTAL", "KENYA"}

summary_db_columns ==
  {"source_location", "sale_date", "sale_number", "auction_type", "grade",
   "lots", "quantity_kgs", "source_file_identifier", "processed_timestamp"}

\* steps 2 and 3 of load_grade_summary on one row of the renamed frame
SummaryRow(r, cols, metadata, auction_type) ==
  LET out == cols \cup {"source_location", "sale_date", "sale_number", "auction_type",
                        "source_file_identifier", "processed_timestamp"}
      value(c) ==
        CASE c = "source_location" -> SOURCE_LOCATION
          [] c = "sale_date" -> metadata.sale_date
          [] c = "sale_number" -> metadata.sale_number
          [] c = "auction_type" -> auction_type
          [] c = "source_file_identifier" -> metadata.file_identifier
          [] c = "processed_timestamp" -> metadata.timestamp
          [] c = "lots" -> RoundInt(ToNumeric(Str(r[c])))
          [] c = "quantity_kgs" -> ToNumeric(Str(r[c]))
          [] c = "grade" -> CleanText(r[c])
          [] OTHER -> r[c]
      row == [c \in out |-> value(c)]
  IN [c \in out |-> row[c]]

\* steps 1 to 3 of load_grade_summary: [outcome, df] as for NormalizeLots
NormalizeSummary(df0, metadata, auction_type) ==
  LET graded(r) == r["grade"] \notin {NULL, NaN} /\ ~ContainsFilterKeyword(r["grade"])
      \* step 3 on the cleaned rows
      filtered(kept, cols) ==
        IF "grade" \in cols
          THEN [outcome |-> "LOAD",
                df |-> [cols |-> cols \cap summary_db_columns,
                        rows |-> [j \in DOMAIN kept |->
                                    [c \in cols \cap summary_db_columns |->
                                       FillNa(kept[j][c], NULL)]]]]
          ELSE [outcome |-> "FAILED_MISSING_COLS", df |-> [cols |-> {}, rows |-> <<>>]]
      \* step 2 on the renamed frame
      cleaned(df1) ==
        filtered(SelectSeq([j \in DOMAIN df1.rows |->
                              SummaryRow(df1.rows[j], Cols(df1), metadata, auction_type)],
                           graded),
                 Cols(df1) \cup {"source_location", "sale_date", "sale_number",
                                 "auction_type", "source_file_identifier",
                                 "processed_timestamp"})
  IN cleaned(Rename(df0, map_columns(df0.columns, COLUMN_MAP_GRADE_SUMMARY).mapping))

\* a loader that reports a load under a status of its own
load_grade_summary_Loaded(conn, df, metadata, auction_type, fault) ==
  LET inserted(n, r) ==
        [conn |-> log_processed(r.conn, metadata.file_identifier, r.ret,
                                DATA_TYPE_SUMMARY, "LOADED", metadata.timestamp),
         call |-> CallOf(conn, "grade_summary", n.df, r), status |-> "LOADED"]
      normalized(n) ==
        IF n.outcome = "LOAD"
          THEN inserted(n, execute_insert(conn, "grade_summary", n.df, fault))
          ELSE [conn |-> log_processed(conn, metadata.file_identifier, 0, DATA_TYPE_SUMMARY,
                                       n.outcome, metadata.timestamp),
                call |-> NoCall, status |-> n.outcome]
  IN normalized(NormalizeSummary(df, metadata, auction_type))

\* load_grade_summary(df, metadata, auction_type, conn)
load_grade_summary(conn, df, metadata, auction_type, fault) ==
  LET inserted(n, r) ==
        [conn |-> log_processed(r.conn, metadata.file_identifier, r.ret,
                                DATA_TYPE_SUMMARY, "SUCCESS", metadata.timestamp),
         call |-> CallOf(conn, "grade_summary", n.df, r), status |-> "SUCCESS"]
      normalized(n) ==
        IF n.outcome = "LOAD"
          THEN inserted(n, execute_insert(conn, "grade_summary", n.df, fault))
          ELSE [conn |-> log_processed(conn, metadata.file_identifier, 0, DATA_TYPE_SUMMARY,
                                       n.outcome, metadata.timestamp),
                call |-> NoCall, status |-> n.outcome]
  IN normalized(NormalizeSummary(df, metadata, auction_type))

(***************************************************************************)
(* Files.  A workbook is [name, openable, sheets], sheets a sequence of     *)
(* [name, readable, grid]; a document is [name, text], text = NULL when    *)
(* no text can be extracted from it.                                       *)
(***************************************************************************)
\* get_file_identifier(filename, sheetname)
get_file_identifier(filename, sheetname) ==
  IF sheetname # NULL THEN filename \o "::" \o sheetname ELSE filename

SheetNames(file) == {file.sheets[i].name : i \in DOMAIN file.sheets}

SheetOf(file, sheetname) ==
  file.sheets[MinOf({i \in DOMAIN file.sheets : file.sheets[i].name = sheetname})]

\* the state a handler threads through its loop: the connection, the
\* execute_insert calls made (each with the ledger pair and the status logged
\* after it), the ledger writes attempted, and whether an exception has reached
\* the handler's except clause
Started(conn) == [conn |-> conn, calls |-> <<>>, logs |-> <<>>, raised |-> FALSE]

Raise(h) == [h EXCEPT !.raised = TRUE]

\* the ledger write a loader made, as recorded in the handler state
LogOf(file_identifier, data_type, status, count) ==
  [file_identifier |-> file_identifier, data_type |-> data_type,
   status |-> status, count |-> count]

\* the handler state after a loader returned r
Loaded(h, r, file_identifier, data_type) ==
  [conn |-> r.conn,
   calls |-> IF r.call.made
               THEN Append(h.calls, [table |-> r.call.table, df |-> r.call.df,
                                     pre |-> r.call.pre, post |-> r.call.post,
                                     ret |-> r.call.ret, raised |-> r.call.raised,
                                     file_identifier |-> file_identifier,
                                     data_type |-> data_type, status |-> r.status])
               ELSE h.calls,
   logs |-> Append(h.logs, LogOf(file_identifier, data_type, r.status,
                                 IF r.call.made THEN r.call.ret ELSE 0)),
   raised |-> FALSE]

\* the row of the k-th sheet at which the engine fails, 0 for none
FaultAt(fault, k) == IF fault.sheet = k THEN fault.row ELSE 0

NoFault == [sheet |-> 0, row |-> 0]

(***************************************************************************)
(* Handlers                                                                *)
(***************************************************************************)
sheet_configs ==
  << [sheet |-> "Detail", header |-> 0, type |-> DATA_TYPE_OFFER, auction_type |-> NULL],
     [sheet |-> "Main Summary", header |-> 2, type |-> DATA_TYPE_SUMMARY,
      auction_type |-> "Main"],
     [sheet |-> "Secondary Summary", header |-> 2, type |-> DATA_TYPE_SUMMARY,
      auction_type |-> "Secondary"] >>

Metadata(file_identifier, md, now) ==
  [file_identifier |-> file_identifier, sale_number |-> md.sale_number,
   sale_date |-> md.sale_date, timestamp |-> now]

\* the loop of process_auction_summary from the k-th configuration on
RECURSIVE AuctionSummarySheets(_, _, _, _, _, _)
AuctionSummarySheets(h, file, md, k, fault, now) ==
  IF k > Len(sheet_configs) \/ h.raised THEN h
  ELSE LET config == sheet_configs[k]
           file_identifier == get_file_identifier(file.name, config.sheet)
           metadata == Metadata(file_identifier, md, now)
       IN IF config.sheet \notin SheetNames(file)
            THEN AuctionSummarySheets(h, file, md, k + 1, fault, now)
            ELSE IF ~SheetOf(file, config.sheet).readable
              THEN Raise(h)
              ELSE LET df == read_excel(SheetOf(file, config.sheet).grid, config.header)
                       r == IF config.type = DATA_TYPE_SUMMARY
                              THEN load_grade_summary(h.conn, df, metadata,
                                                      config.auction_type, FaultAt(fault, k))
                              ELSE load_lot_details(h.conn, df, metadata, config.type,
                                                    FALSE, FaultAt(fault, k))
                   IN AuctionSummarySheets(Loaded(h, r, file_identifier, config.type),
                                           file, md, k + 1, fault, now)

\* process_auction_summary(filepath, filename, conn)
process_auction_summary(conn, file, fault, now) ==
  IF ~file.openable THEN Raise(Started(conn))
  ELSE AuctionSummarySheets(Started(conn), file, extract_metadata(file.name, NoFrame),
                            1, fault, now)

max_scan_rows == 20

\* the loop of process_complete_offer_lots from the k-th sheet on
RECURSIVE CompleteOfferLotsSheets(_, _, _, _, _, _)
\* a loop that ends at the first sheet without header row
RECURSIVE CompleteOfferLotsSheets_Break(_, _, _, _, _, _)
CompleteOfferLotsSheets_Break(h, file, md, k, fault, now) ==
  IF k > Len(file.sheets) \/ h.raised THEN h
  ELSE LET sheet == file.sheets[k]
           file_identifier == get_file_identifier(file.name, sheet.name)
           metadata == Metadata(file_identifier, md, now)
           \* find_header_row catches the error of an unreadable sheet and returns None
           header_row == IF sheet.readable
                           THEN find_header_row(sheet.grid, HEADER_KEYWORDS, max_scan_rows)
                           ELSE NotFound
           df == WithColumn(read_excel(sheet.grid, header_row), "Broker", sheet.name)
           r == load_lot_details(h.conn, df, metadata, DATA_TYPE_OFFER, FALSE,
                                 FaultAt(fault, k))
           next == IF header_row # NotFound
                     THEN Loaded(h, r, file_identifier, DATA_TYPE_OFFER)
                     ELSE Loaded(h, [conn |-> log_processed(h.conn, file_identifier, 0,
                                                DATA_TYPE_OFFER, "FAILED_DYNAMIC_HEADER", now),
                                     call |-> NoCall, status |-> "FAILED_DYNAMIC_HEADER"],
                                 file_identifier, DATA_TYPE_OFFER)
       IN IF header_row = NotFound THEN next
          ELSE CompleteOfferLotsSheets_Break(next, file, md, k + 1, fault, now)

CompleteOfferLotsSheets(h, file, md, k, fault, now) ==
  IF k > Len(file.sheets) \/ h.raised THEN h
  ELSE LET sheet == file.sheets[k]
           file_identifier == get_file_identifier(file.name, sheet.name)
           metadata == Metadata(file_identifier, md, now)
           \* find_header_row catches the error of an unreadable sheet and returns None
           header_row == IF sheet.readable
                           THEN find_header_row(sheet.grid, HEADER_KEYWORDS, max_scan_rows)
                           ELSE NotFound
           df == WithColumn(read_excel(sheet.grid, header_row), "Broker", sheet.name)
           r == load_lot_details(h.conn, df, metadata, DATA_TYPE_OFFER, FALSE,
                                 FaultAt(fault, k))
           next == IF header_row # NotFound
                     THEN Loaded(h, r, file_identifier, DATA_TYPE_OFFER)
                     ELSE Loaded(h, [conn |-> log_processed(h.conn, file_identifier, 0,
                                                DATA_TYPE_OFFER, "FAILED_DYNAMIC_HEADER", now),
                                     call |-> NoCall, status |-> "FAILED_DYNAMIC_HEADER"],
                                 file_identifier, DATA_TYPE_OFFER)
       IN CompleteOfferLotsSheets(next, file, md, k + 1, fault, now)

\* process_complete_offer_lots(filepath, filename, conn)
process_complete_offer_lots(conn, file, fault, now) ==
  IF ~file.openable THEN Raise(Started(conn))
  ELSE CompleteOfferLotsSheets(Started(conn), file, extract_metadata(file.name, NoFrame),
                               1, fault, now)

\* df.iloc[0].isnull().sum() > len(df.columns) / 2, then df.drop(0)
CleanSecondRow(df) ==
  IF df.rows # <<>>
     /\ 2 * Cardinality({c \in Cols(df) : df.rows[1][c] \in {NaN, NULL}}) > Len(df.columns)
    THEN [df EXCEPT !.rows = Tail(df.rows)]
    ELSE df

\* process_standard_format(filepath, filename, conn, data_type, target_sheet,
\*                         clean_second_row, use_internal_metadata)
process_standard_format(conn, file, data_type, target_sheet, clean_second_row, use_internal_metadata, fault, now) ==
  IF ~file.openable THEN Raise(Started(conn))
  ELSE IF (target_sheet # NULL /\ target_sheet \notin SheetNames(file))
          \/ (target_sheet = NULL /\ file.sheets = <<>>)
    THEN Started(conn)
    ELSE LET sheet == IF target_sheet # NULL THEN SheetOf(file, target_sheet)
                                             ELSE file.sheets[1]
             df_initial == read_excel(sheet.grid, 0)
             md == extract_metadata(file.name, df_initial)
             file_identifier == get_file_identifier(file.name, sheet.name)
             df == IF clean_second_row THEN CleanSecondRow(df_initial) ELSE df_initial
             r == load_lot_details(conn, df, Metadata(file_identifier, md, now), data_type,
                                   use_internal_metadata, FaultAt(fault, 1))
         IN IF ~sheet.readable THEN Raise(Started(conn))
            ELSE Loaded(Started(conn), r, file_identifier, data_type)

\* filename.lower()
Lower(filename) ==
  CASE filename = "AuctionSummary_[2025-35]_010925.xlsx" ->
         "auctionsummary_[2025-35]_010925.xlsx"
    [] filename = "CompleteOfferLots_[2025-35]_010925.xlsx" ->
         "completeofferlots_[2025-35]_010925.xlsx"
    [] filename = "GeneralReport.xlsx" -> "generalreport.xlsx"
    [] filename = "Sale 35_Catalogue_01_09_2025.xlsx" -> "sale 35_catalogue_01_09_2025.xlsx"
    [] filename = "Auction Quantity.xlsx" -> "auction quantity.xlsx"
    [] filename = "Weather Report.txt" -> "weather report.txt"
    [] filename = "Weekly Report.txt" -> "weekly report.txt"
    [] OTHER -> filename

\* sub in s, for the lower-cased file names and the substrings the code looks for
Contains(s, sub) ==
  <<s, sub>> \in
    {<<"auctionsummary_[2025-35]_010925.xlsx", "auctionsummary">>,
     <<"completeofferlots_[2025-35]_010925.xlsx", "completeofferlots">>,
     <<"generalreport.xlsx", "generalreport">>,
     <<"sale 35_catalogue_01_09_2025.xlsx", "sale">>,
     <<"sale 35_catalogue_01_09_2025.xlsx", "catalogue">>,
     <<"auction quantity.xlsx", "auction quantity">>,
     <<"weather report.txt", "weather">>,
     <<"weekly report.txt", "weekly report">>}

\* s.endswith(suffix) for the lower-cased file names
EndsWith(s, suffix) ==
  <<s, suffix>> \in
    {<<"auctionsummary_[2025-35]_010925.xlsx", ".xlsx">>,
     <<"completeofferlots_[2025-35]_010925.xlsx", ".xlsx">>,
     <<"generalreport.xlsx", ".xlsx">>,
     <<"sale 35_catalogue_01_09_2025.xlsx", ".xlsx">>,
     <<"auction quantity.xlsx", ".xlsx">>,
     <<"weather report.txt", ".txt">>,
     <<"weekly report.txt", ".txt">>}

\* extract_text_from_file(filepath, extension): the stripped text, NULL for None
extract_text_from_file(file) == file.text

\* a handler that takes empty text for extracted text
process_unstructured_report_EmptyText(conn, file, fault, now) ==
  LET file_identifier == get_file_identifier(file.name, NULL)
      content == extract_text_from_file(file)
      fn_lower == Lower(file.name)
      content_type == IF Contains(fn_lower, "weather") THEN "WEATHER"
                      ELSE IF Contains(fn_lower, "market report")
                              \/ Contains(fn_lower, "weekly report") THEN "MARKET_REPORT"
                      ELSE "GENERAL"
      data(md) ==
        [source_location |-> SOURCE_LOCATION, report_date |-> md.sale_date,
         sale_number |-> md.sale_number, content_type |-> content_type,
         content |-> content, source_file |-> file.name, processed_timestamp |-> now]
      frame(d) == [cols |-> DOMAIN d, rows |-> <<d>>]
      inserted(df, r) ==
        Loaded(Started(conn),
               [conn |-> log_processed(r.conn, file_identifier, r.ret,
                                       DATA_TYPE_COMMENTARY, "SUCCESS", now),
                call |-> CallOf(conn, "market_commentary", df, r), status |-> "SUCCESS"],
               file_identifier, DATA_TYPE_COMMENTARY)
      extracted(df) ==
        inserted(df, execute_insert(conn, "market_commentary", df, FaultAt(fault, 1)))
  IN IF is_processed(conn, file_identifier, DATA_TYPE_COMMENTARY) THEN Started(conn)
     ELSE IF content # NULL
       THEN extracted(frame(data(extract_metadata(file.name, NoFrame))))
       ELSE Loaded(Started(conn),
                   [conn |-> log_processed(conn, file_identifier, 0, DATA_TYPE_COMMENTARY,
                                           "FAILED_EXTRACTION", now),
                    call |-> NoCall, status |-> "FAILED_EXTRACTION"],
                   file_identifier, DATA_TYPE_COMMENTARY)

\* process_unstructured_report(filepath, filename, conn)
process_unstructured_report(conn, file, fault, now) ==
  LET file_identifier == get_file_identifier(file.name, NULL)
      content == extract_text_from_file(file)
      fn_lower == Lower(file.name)
      content_type == IF Contains(fn_lower, "weather") THEN "WEATHER"
                      ELSE IF Contains(fn_lower, "market report")
                              \/ Contains(fn_lower, "weekly report") THEN "MARKET_REPORT"
                      ELSE "GENERAL"
      data(md) ==
        [source_location |-> SOURCE_LOCATION, report_date |-> md.sale_date,
         sale_number |-> md.sale_number, content_type |-> content_type,
         content |-> content, source_file |-> file.name, processed_timestamp |-> now]
      frame(d) == [cols |-> DOMAIN d, rows |-> <<d>>]
      inserted(df, r) ==
        Loaded(Started(conn),
               [conn |-> log_processed(r.conn, file_identifier, r.ret,
                                       DATA_TYPE_COMMENTARY, "SUCCESS", now),
                call |-> CallOf(conn, "market_commentary", df, r), status |-> "SUCCESS"],
               file_identifier, DATA_TYPE_COMMENTARY)
      extracted(df) ==
        inserted(df, execute_insert(conn, "market_commentary", df, FaultAt(fault, 1)))
  IN IF is_processed(conn, file_identifier, DATA_TYPE_COMMENTARY) THEN Started(conn)
     ELSE IF content \notin {NULL, ""}
       THEN extracted(frame(data(extract_metadata(file.name, NoFrame))))
       ELSE Loaded(Started(conn),
                   [conn |-> log_processed(conn, file_identifier, 0, DATA_TYPE_COMMENTARY,
                                           "FAILED_EXTRACTION", now),
                    call |-> NoCall, status |-> "FAILED_EXTRACTION"],
                   file_identifier, DATA_TYPE_COMMENTARY)

(***************************************************************************)
(* The input files of the model                                            *)
(***************************************************************************)
Workbook(name, openable, sheets) ==
  [name |-> name, openable |-> openable, sheets |-> sheets, text |-> NULL]

Document(name, text) == [name |-> name, openable |-> TRUE, sheets |-> <<>>, text |-> text]

Sheet(name, grid) == [name |-> name, readable |-> TRUE, grid |-> grid]

Unreadable(name) == [name |-> name, readable |-> FALSE, grid |-> <<>>]

OfferHeader ==
  <<"Broker", "Selling Mark", "Garden", "Grade", "LotNo", "Invoice", "Net Weight", "Bags",
    "Valuation">>

OfferRow(broker, lot, invoice, valuation) ==
  <<broker, NaN, " kiambu ", "G1", lot, invoice, "1", "2.6", valuation>>

SummaryGrid(lots) ==
  << <<"Mombasa Auction", NaN, NaN>>, <<NaN, NaN, NaN>>,
     <<"Region/Grade", "Lots", "Kilos">>,
     <<"G1", lots, "10">>, <<"total", "5", "20">> >>

AS == "AuctionSummary_[2025-35]_010925.xlsx"
COL == "CompleteOfferLots_[2025-35]_010925.xlsx"
GR == "GeneralReport.xlsx"
SC == "Sale 35_Catalogue_01_09_2025.xlsx"
AQ == "Auction Quantity.xlsx"
WX == "Weather Report.txt"

AuctionSummaryFiles ==
  { \* a complete offer and a summary row
    Workbook(AS, TRUE,
      << Sheet("Detail", <<OfferHeader, OfferRow("B1", "L1", "I1", "10")>>),
         Sheet("Main Summary", SummaryGrid("3")) >>),
    \* the same lot delivered again without invoice and valuation, another lot count
    Workbook(AS, TRUE,
      << Sheet("Detail", <<OfferHeader, OfferRow("b1", "L1", NaN, NaN)>>),
         Sheet("Main Summary", SummaryGrid("4")),
         Sheet("Secondary Summary", SummaryGrid("3")) >>),
    \* the same key twice in one sheet
    Workbook(AS, TRUE,
      << Sheet("Detail", <<OfferHeader, OfferRow("B1", "L1", "I1", "20"),
                           OfferRow("B1", "L1", NaN, "$10")>>) >>),
    \* a row without broker and a second lot
    Workbook(AS, TRUE,
      << Sheet("Detail", <<OfferHeader, OfferRow(NaN, "L1", "I1", "10"),
                           OfferRow("B1", "L2", "-", "x")>>) >>),
    \* a sheet that cannot be read
    Workbook(AS, TRUE, << Unreadable("Detail"), Sheet("Main Summary", SummaryGrid("3")) >>) }

SaleCatalogueFiles ==
  { Workbook(SC, TRUE,
      << Sheet("Sheet1", << <<"Broker", "Mark", "Grade", "Lot No", "RP">>,
                            <<"B1", "ruiru", "G1", "L1", "20">> >>) >>),
    \* a catalogue without valuation column
    Workbook(SC, TRUE,
      << Sheet("Sheet1", << <<"Broker", "Mark", "Grade", "Lot No">>,
                            <<"B1", "ruiru", "G2", "L1">> >>) >>) }

CompleteOfferLotsFiles ==
  { Workbook(COL, TRUE,
      << Sheet("B1", << <<"Offer list", NaN, NaN, NaN, NaN>>,
                        <<"LotNo", "Garden", "Grade", "Kilos", "Valuation">>,
                        <<"L1", "KIAMBU", "G1", "1", "10">> >>),
         Sheet("B2", << <<"No lots this week", NaN, NaN, NaN, NaN>> >>),
         \* a sheet without grade column
         Sheet("B3", << <<"LotNo", "Garden", "Kilos", "Valuation">>,
                        <<"L3", "KIAMBU", "1", "10">> >>) >>),
    \* a workbook whose first sheet has no header row
    Workbook(COL, TRUE,
      << Sheet("B2", << <<"No lots this week", NaN, NaN, NaN, NaN>> >>),
         Sheet("B1", << <<"LotNo", "Garden", "Grade", "Kilos", "Valuation">>,
                        <<"L1", "KIAMBU", "G1", "1", "10">> >>) >>) }

SaleHeader ==
  <<"Broker", "Garden", "Grade", "LotNo", "Invoice", "Price", "Buyer", "Sale Code",
    "Selling End Time">>

SaleRow(lot, invoice, price, buyer) ==
  <<"B1", "KIAMBU", "G1", lot, invoice, price, buyer, "2025/35", "01/09/2025 10:00:00">>

GeneralReportFiles ==
  { Workbook(GR, TRUE,
      << Sheet("General Report", <<SaleHeader, SaleRow("L1", "I1", "5", "BY1")>>) >>),
    \* the same sale reported again by a file without invoice column
    Workbook(GR, TRUE,
      << Sheet("General Report",
               << <<"Broker", "Garden", "Grade", "LotNo", "Price", "Buyer", "Sale Code",
                    "Selling End Time">>,
                  <<"B1", "KIAMBU", "G1", "L1", "6", "BY2", "2025/35", "2025-09-01">> >>) >>),
    \* a noise row under the header, a sale without price, a sale whose buyer is
    \* a noise token, a sale with an empty invoice, a sale without sale code
    Workbook(GR, TRUE,
      << Sheet("General Report",
               <<SaleHeader, <<"Report", NaN, NaN, NaN, NaN, NaN, NaN, NaN, NaN>>,
                 SaleRow("L2", "I2", NaN, "BY1"), SaleRow("L3", "I3", "5", " nil "),
                 SaleRow("L1", NaN, "5", "BY2"),
                 <<"B1", "KIAMBU", "G1", "L7", "I7", "5", "BY1", NaN,
                   "01/09/2025 10:00:00">> >>) >>),
    \* sales of several auctions: a one-digit sale code, a sale named in words
    \* whose end time is not a date
    Workbook(GR, TRUE,
      << Sheet("General Report",
               <<SaleHeader,
                 <<"B1", "KIAMBU", "G1", "L4", "I4", "5", "BY1", "2025/5",
                   "01/09/2025 10:00:00">>,
                 <<"B1", "KIAMBU", "G1", "L5", "I5", "5", "BY1", "Sale 7", "x">> >>) >>),
    \* a report with sale codes but without the column of the sale date
    Workbook(GR, TRUE,
      << Sheet("General Report",
               << <<"Broker", "Garden", "Grade", "LotNo", "Price", "Buyer", "Sale Code">>,
                  <<"B1", "KIAMBU", "G1", "L6", "5", "BY1", "2025/35">> >>) >>),
    \* a workbook without the expected sheet
    Workbook(GR, TRUE, << Sheet("Sheet1", <<SaleHeader>>) >>),
    \* a workbook that cannot be opened
    Workbook(GR, FALSE, <<>>) }

OtherFiles ==
  { Workbook(AQ, TRUE, << Sheet("Sheet1", << <<"Week", "Kilos">> >>) >>),
    Document(WX, "rain"),
    Document(WX, ""),
    Document(WX, NULL) }

\* the files that may be delivered to the input directory
Catalog ==
  AuctionSummaryFiles \cup SaleCatalogueFiles \cup CompleteOfferLotsFiles
    \cup GeneralReportFiles \cup OtherFiles

\* the file names in the order sorted() puts them
NameOrder == <<AQ, AS, COL, GR, SC, WX>>

(***************************************************************************)
(* run_processor                                                           *)
(***************************************************************************)
MaxRuns == 2
MaxDeliveries == 2
MaxFaults == 1
MaxSheets == 3
MaxRows == 2

VARIABLES
  pc,           \* "idle" between runs, "files" inside the loops of run_processor
  dir,          \* the files of MOMBASA_DIR
  queue,        \* the files the running run_processor has still to process
  runs,         \* number of run_processor calls so far; the clock of the model
  deliveries,   \* number of files delivered so far
  faults,       \* number of engine errors injected so far
  init_failed,  \* initialize_database of the current run caught sqlite3.Error
  dispatched,   \* names of the files handed to a handler in the current run
  handled,      \* the last file handed to a handler, how the handler ended, and
                \* the files of the run whose handler met a failure so far
  calls,        \* the execute_insert calls of the last handler
  last_log,     \* per (file_identifier, data_type), the latest log_processed call
  finished      \* per completed run: its directory, the store it left, the
                \* files handed to a handler, those that failed, and
                \* whether it ran on an unchanged store engine without errors

\* one call of a function of the module on its own, outside run_processor
VARIABLES
  invoked,      \* the function and its arguments
  yielded       \* <<>> before the call, <<the value returned>> after it

vars == <<storage, db, committed, pc, dir, queue, runs, deliveries, faults,
          init_failed, dispatched, handled, calls, last_log, finished, invoked, yielded>>

NotInvoked == [op |-> "none"]

\* datetime.now().isoformat() during the current run
Now == ToString(runs)

NoFile ==
  [name |-> "none", raised |-> FALSE, logs |-> <<>>, tabular |-> FALSE,
   fault |-> [sheet |-> 0, row |-> 0], failed |-> {}]

Init ==
  /\ storage \in {"ok", "unusable", "unopenable"}
  /\ db = EmptyStore
  /\ committed = EmptyStore
  /\ pc = "idle"
  /\ dir = {}
  /\ queue = <<>>
  /\ runs = 0
  /\ deliveries = 0
  /\ faults = 0
  /\ init_failed = FALSE
  /\ dispatched = {}
  /\ handled = NoFile
  /\ calls = <<>>
  /\ last_log = <<>>
  /\ finished = <<>>
  /\ invoked = NotInvoked
  /\ yielded = <<>>

\* a file arrives in the input directory, replacing the file of the same name
Deliver(file) ==
  /\ pc = "idle"
  /\ deliveries < MaxDeliveries
  /\ dir' = {f \in dir : f.name # file.name} \cup {file}
  /\ deliveries' = deliveries + 1
  /\ UNCHANGED <<storage, db, committed, pc, queue, runs, faults, init_failed,
                 dispatched, handled, calls, last_log, finished, invoked, yielded>>

\* sorted(names) of the files of files, as a sequence of files
RECURSIVE SortedFiles(_, _)
SortedFiles(files, k) ==
  IF k > Len(NameOrder) THEN <<>>
  ELSE LET here == {f \in files : f.name = NameOrder[k]}
       IN (IF here = {} THEN <<>> ELSE <<CHOOSE f \in here : TRUE>>)
          \o SortedFiles(files, k + 1)

structured_files(all_files) == {f \in all_files : EndsWith(Lower(f.name), ".xlsx")}

unstructured_files(all_files) ==
  {f \in all_files : \E e \in {".pdf", ".docx", ".txt"} : EndsWith(Lower(f.name), e)}

\* run_processor up to its loops: the directory check, initialize_database,
\* sqlite3.connect and the directory listing
StartRun(exists) ==
  /\ pc = "idle"
  /\ runs < MaxRuns
  /\ runs' = runs + 1
  /\ dispatched' = {}
  /\ handled' = NoFile
  /\ calls' = <<>>
  /\ IF ~exists
       THEN /\ init_failed' = FALSE
            /\ UNCHANGED <<pc, queue>>
       ELSE /\ init_failed' = (storage # "ok")
            /\ IF storage = "unopenable"
                 THEN UNCHANGED <<pc, queue>>
                 ELSE /\ pc' = "files"
                      /\ queue' = SortedFiles(structured_files(dir), 1)
                                    \o SortedFiles(unstructured_files(dir), 1)
  /\ UNCHANGED <<storage, db, committed, dir, deliveries, faults, last_log, finished,
                 invoked, yielded>>

\* the branch of the routing chain of run_processor a workbook name takes
Route(filename) ==
  LET fn_lower == Lower(filename)
  IN IF Contains(fn_lower, "auctionsummary") THEN "auctionsummary"
     ELSE IF Contains(fn_lower, "generalreport") THEN "generalreport"
     ELSE IF Contains(fn_lower, "completeofferlots") THEN "completeofferlots"
     ELSE IF Contains(fn_lower, "sale") /\ Contains(fn_lower, "catalogue") THEN "catalogue"
     ELSE "skip"

Faults == {NoFault} \cup {[sheet |-> s, row |-> r] : s \in 1..MaxSheets, r \in 1..MaxRows}

RECURSIVE Logged(_, _, _)
Logged(log, logs, k) ==
  IF k > Len(logs) THEN log
  ELSE Logged((<<logs[k].file_identifier, logs[k].data_type>> :>
                 [status |-> logs[k].status, count |-> logs[k].count]) @@ log,
              logs, k + 1)

\* the handler met a failure: an exception reached its except clause, a batch
\* raised in execute_insert, or a loader logged a FAILED status
Failed(h) ==
  \/ h.raised
  \/ \E k \in DOMAIN h.calls : h.calls[k].raised
  \/ \E k \in DOMAIN h.logs : h.logs[k].status \notin {"SUCCESS", "SUCCESS_NO_DATA"}

\* a handler without except clause: an exception ends the loops of run_processor
Handled_Propagating(file, h, fault, tabular) ==
  /\ db' = h.conn.db
  /\ committed' = h.conn.committed
  /\ queue' = IF h.raised THEN <<>> ELSE Tail(queue)
  /\ dispatched' = dispatched \cup {file.name}
  /\ handled' = [name |-> file.name, raised |-> h.raised, logs |-> h.logs,
                 tabular |-> tabular, fault |-> fault,
                 failed |-> handled.failed \cup (IF Failed(h) THEN {file.name} ELSE {})]
  /\ calls' = h.calls
  /\ last_log' = Logged(last_log, h.logs, 1)
  /\ faults' = IF fault = NoFault THEN faults ELSE faults + 1
  /\ UNCHANGED <<storage, pc, dir, runs, deliveries, init_failed, finished, invoked, yielded>>

\* one iteration of a loop of run_processor: the head of the queue goes through
\* the handler, which ends in the state h
Handled(file, h, fault, tabular) ==
  /\ db' = h.conn.db
  /\ committed' = h.conn.committed
  /\ queue' = Tail(queue)
  /\ dispatched' = dispatched \cup {file.name}
  /\ handled' = [name |-> file.name, raised |-> h.raised, logs |-> h.logs,
                 tabular |-> tabular, fault |-> fault,
                 failed |-> handled.failed \cup (IF Failed(h) THEN {file.name} ELSE {})]
  /\ calls' = h.calls
  /\ last_log' = Logged(last_log, h.logs, 1)
  /\ faults' = IF fault = NoFault THEN faults ELSE faults + 1
  /\ UNCHANGED <<storage, pc, dir, runs, deliveries, init_failed, finished, invoked, yielded>>

Dispatch(route, structured) ==
  /\ pc = "files"
  /\ queue # <<>>
  /\ EndsWith(Lower(Head(queue).name), ".xlsx") = structured
  /\ structured => Route(Head(queue).name) = route

FaultChoice(fault) == fault \in Faults /\ (fault # NoFault => faults < MaxFaults)

ProcessAuctionSummary ==
  /\ Dispatch("auctionsummary", TRUE)
  /\ \E fault \in Faults :
       /\ FaultChoice(fault)
       /\ Handled(Head(queue), process_auction_summary(Conn, Head(queue), fault, Now),
                  fault, TRUE)

ProcessGeneralReport ==
  /\ Dispatch("generalreport", TRUE)
  /\ \E fault \in Faults :
       /\ FaultChoice(fault)
       /\ Handled(Head(queue),
                  process_standard_format(Conn, Head(queue), DATA_TYPE_SALE, "General Report",
                                          TRUE, TRUE, fault, Now),
                  fault, TRUE)

ProcessCompleteOfferLots ==
  /\ Dispatch("completeofferlots", TRUE)
  /\ \E fault \in Faults :
       /\ FaultChoice(fault)
       /\ Handled(Head(queue), process_complete_offer_lots(Conn, Head(queue), fault, Now),
                  fault, TRUE)

ProcessSaleCatalogue ==
  /\ Dispatch("catalogue", TRUE)
  /\ \E fault \in Faults :
       /\ FaultChoice(fault)
       /\ Handled(Head(queue),
                  process_standard_format(Conn, Head(queue), DATA_TYPE_OFFER, NULL,
                                          FALSE, FALSE, fault, Now),
                  fault, TRUE)

\* a workbook no branch of the routing chain takes is skipped
SkipFile ==
  /\ Dispatch("skip", TRUE)
  /\ queue' = Tail(queue)
  /\ UNCHANGED <<storage, db, committed, pc, dir, runs, deliveries, faults, init_failed,
                 dispatched, handled, calls, last_log, finished, invoked, yielded>>

ProcessUnstructuredReport ==
  /\ Dispatch("unstructured", FALSE)
  /\ \E fault \in Faults :
       /\ FaultChoice(fault)
       /\ Handled(Head(queue), process_unstructured_report(Conn, Head(queue), fault, Now),
                  fault, FALSE)

\* the loops are over: the with block commits and run_processor returns
FinishRun ==
  /\ pc = "files"
  /\ queue = <<>>
  /\ pc' = "idle"
  /\ committed' = db
  /\ finished' = Append(finished, [dir |-> dir, store |-> db, faults |-> faults,
                                   dispatched |-> dispatched, failed |-> handled.failed])
  /\ UNCHANGED <<storage, db, dir, queue, runs, deliveries, faults, init_failed,
                 dispatched, handled, calls, last_log, invoked, yielded>>

Next ==
  \/ \E file \in Catalog : Deliver(file)
  \/ \E exists \in BOOLEAN : StartRun(exists)
  \/ ProcessAuctionSummary
  \/ ProcessGeneralReport
  \/ ProcessCompleteOfferLots
  \/ ProcessSaleCatalogue
  \/ SkipFile
  \/ ProcessUnstructuredReport
  \/ FinishRun

Spec == Init /\ [][Next]_vars

(***************************************************************************)
(* The functions of the module on their own: an initial state gives one    *)
(* function its arguments, the step calls it.                              *)
(***************************************************************************)
\* file names for extract_metadata: one per pattern, one with a 6-digit token
\* that is no date, one that matches both patterns, two that match none
MetadataFilenames ==
  {AS, SC, GR, AQ, "AuctionSummary_[2025-36]_999999.xlsx",
   "AuctionSummary_[2025-36]_999999.xlsx - Sale 35_Catalogue_01_09_2025.xlsx"}

\* cells of an internal sale code column and of an internal sale date column
SaleCodeCells == {NaN, "2025/35", "2025/5", "Sale 7", "Lot list"}
SaleDateCells == {NaN, "08/09/2025 10:00:00", "x"}

\* frames of two rows with both internal columns, with one, with none; and no frame
MetadataFrames ==
  {read_excel(<< <<"Sale Code", "Selling End Time">>, <<c1, d1>>, <<c2, d2>> >>, 0) :
     c1 \in SaleCodeCells, d1 \in SaleDateCells, c2 \in {NaN, "2025/36"},
     d2 \in {NaN, "01/09/2025"}}
  \cup {read_excel(<< <<"Auction", "LotNo">>, <<c1, "L1">> >>, 0) : c1 \in SaleCodeCells}
  \cup {read_excel(<< <<"Sale Date", "LotNo">>, <<d1, "L1">> >>, 0) : d1 \in SaleDateCells}
  \cup {read_excel(<< <<"LotNo", "Grade">>, <<"L1", "G1">> >>, 0), NoFrame}

\* header rows with two mark candidates in both orders, with one, with none
MarkHeaders ==
  {<<"Selling Mark", "Garden", "LotNo">>, <<"Garden", "Selling Mark", "LotNo">>,
   <<"Garden", "mark", "LotNo">>, <<"mark", "Garden", "LotNo">>,
   <<"Estate", "Mark", "LotNo">>, <<"Grade", "Factory", "LotNo">>,
   <<"Grade", "Broker", "LotNo">>}

MarkCells == {NaN, " nil ", "ruiru", " kiambu "}

MarkFrames ==
  {read_excel(<<h, <<a, b, "L1">>, <<b, a, "L2">> >>, 0) :
     h \in MarkHeaders, a \in MarkCells, b \in MarkCells}

\* headers for map_columns: two aliases of the lot number, a second spelling of
\* one of them, two aliases of the (prioritized) quantity, a buyer, a mark
\* alias and a header that is no alias
HeaderPool == {"LotNo", "Lot No", "lotno", "Kilos", "Net Weight", "Buyer", "Garden", "Remarks"}

\* the header rows of three different headers of the pool, in every order
HeaderRows ==
  {row \in {<<a, b, c>> : a \in HeaderPool, b \in HeaderPool, c \in HeaderPool} :
     row[1] # row[2] /\ row[1] # row[3] /\ row[2] # row[3]}

Reverse(seq) == [i \in DOMAIN seq |-> seq[Len(seq) + 1 - i]]

\* the alias tables of the module, and the first with its fields in reverse order
AliasTables ==
  {COLUMN_MAP_LOT_DETAILS, Reverse(COLUMN_MAP_LOT_DETAILS), COLUMN_MAP_GRADE_SUMMARY}

\* rows of a sheet read without header: a blank row, a title row, a header row
\* with three keywords in other spellings, a row that names two keywords in
\* three cells, a data row
PreviewRows ==
  {<<NaN, NaN, NaN, NaN>>, <<"Offer list", NaN, NaN, NaN>>,
   <<"lotno", " GARDEN ", NaN, "Grade">>, <<"LotNo", "lotno", "Garden", NaN>>,
   <<"L1", "KIAMBU", "G1", "1">>}

MaxGridRows == 4

PreviewGrids == UNION {[1..n -> PreviewRows] : n \in 1..MaxGridRows}

\* the keywords of the module and a list of two keywords
KeywordLists == {HEADER_KEYWORDS, <<"LotNo", "Garden">>}

\* scan windows: the first row, the first three rows, the default
ScanRows == {1, 3, 20}

FunctionCalls ==
  [op : {"extract_metadata"}, filename : MetadataFilenames, df : MetadataFrames]
    \cup [op : {"resolved_mark"}, df : MarkFrames]
    \cup [op : {"map_columns"}, df_columns : HeaderRows, mapping_dict : AliasTables]
    \cup [op : {"find_header_row"}, grid : PreviewGrids, keywords : KeywordLists,
          max_scan_rows : ScanRows]

FunctionInit ==
  /\ storage = "ok"
  /\ db = EmptyStore
  /\ committed = EmptyStore
  /\ pc = "idle"
  /\ dir = {}
  /\ queue = <<>>
  /\ runs = 0
  /\ deliveries = 0
  /\ faults = 0
  /\ init_failed = FALSE
  /\ dispatched = {}
  /\ handled = NoFile
  /\ calls = <<>>
  /\ last_log = <<>>
  /\ finished = <<>>
  /\ invoked \in FunctionCalls
  /\ yielded = <<>>

Called(op) ==
  /\ invoked.op = op
  /\ yielded = <<>>
  /\ UNCHANGED <<storage, db, committed, pc, dir, queue, runs, deliveries, faults,
                 init_failed, dispatched, handled, calls, last_log, finished, invoked>>

ExtractMetadata ==
  /\ Called("extract_metadata")
  /\ yielded' = <<extract_metadata(invoked.filename, invoked.df)>>

ResolveMark ==
  /\ Called("resolved_mark")
  /\ yielded' = <<resolved_mark(invoked.df)>>

MapColumns ==
  /\ Called("map_columns")
  /\ yielded' = <<map_columns(invoked.df_columns, invoked.mapping_dict)>>

FindHeaderRow ==
  /\ Called("find_header_row")
  /\ yielded' = <<find_header_row(invoked.grid, invoked.keywords, invoked.max_scan_rows)>>

FunctionNext ==
  \/ ExtractMetadata
  \/ ResolveMark
  \/ MapColumns
  \/ FindHeaderRow

FunctionSpec == FunctionInit /\ [][FunctionNext]_vars

(***************************************************************************)
(* Properties of the write path                                            *)
(***************************************************************************)
\* the tables that hold business rows
CanonicalTables == {"auction_sales", "auction_offers", "grade_summary", "market_commentary"}

\* the natural key of a row of table t
KeyOf(t, row) == [c \in UniqueCols(t) |-> row[c]]

\* the records of the frame of an execute_insert call that carry the key of row
SameKey(call, row) ==
  {j \in DOMAIN call.df.rows :
     KeyOf(call.table, FullRow(call.table, call.df.cols, call.df.rows[j]))
       = KeyOf(call.table, row)}

\* C1: no canonical table ever holds two rows with the same natural key,
\* neither as the connection sees the store nor as it is durably stored.
C1_UniqueNaturalKeys ==
  \A t \in CanonicalTables : \A store \in {db, committed} :
    \A i, j \in DOMAIN store[t] :
      KeyOf(t, store[t][i]) = KeyOf(t, store[t][j]) => i = j

\* a batch that holds the same key twice has been merged into one stored row
C1_Witness ==
  \E k \in DOMAIN calls :
    /\ ~calls[k].raised
    /\ calls[k].table = "auction_offers"
    /\ \E a, b \in DOMAIN calls[k].df.rows :
         a < b /\ b \in SameKey(calls[k], FullRow(calls[k].table, calls[k].df.cols,
                                                  calls[k].df.rows[a]))
    /\ Len(db["auction_offers"]) = 1

EnrichableFields ==
  {"valuation_or_rp", "mark", "quantity_kgs", "package_count", "invoice_number",
   "grade", "sale_date"}

\* the records of the frame that carry the key of row and a value for field c
Given(call, row, c) ==
  {j \in SameKey(call, row) : c \in call.df.cols /\ call.df.rows[j][c] # NULL}

\* C2: an execute_insert call on auction_offers leaves each enrichable field of
\* an already stored row unchanged when no incoming record of that key has a
\* value for it, sets it to the incoming value otherwise, and never turns a
\* stored non-null value into null.
C2_OfferFillIfNonNull ==
  \A k \in DOMAIN calls :
    calls[k].table = "auction_offers" =>
      LET old == calls[k].pre["auction_offers"]
          new == calls[k].post["auction_offers"]
      IN \A i \in DOMAIN old : \A c \in EnrichableFields :
           /\ i \in DOMAIN new
           /\ old[i][c] # NULL => new[i][c] # NULL
           /\ ~calls[k].raised =>
                LET given == Given(calls[k], old[i], c)
                IN new[i][c] = IF given = {} THEN old[i][c]
                               ELSE calls[k].df.rows[MaxOf(given)][c]

\* a stored offer met a record of its key that has no value for one known field
\* (kept) and another value for a second known field (replaced)
C2_Witness ==
  \E k \in DOMAIN calls :
    /\ calls[k].table = "auction_offers" /\ ~calls[k].raised
    /\ \E i \in DOMAIN calls[k].pre["auction_offers"] :
         LET old == calls[k].pre["auction_offers"][i]
             new == calls[k].post["auction_offers"][i]
         IN /\ SameKey(calls[k], old) # {}
            /\ \E c \in EnrichableFields :
                 old[c] # NULL /\ Given(calls[k], old, c) = {} /\ new[c] = old[c]
            /\ \E c \in EnrichableFields :
                 old[c] # NULL /\ Given(calls[k], old, c) # {} /\ new[c] # old[c]

\* C3: an execute_insert call on auction_sales leaves every field of an already
\* stored row equal to the field of the incoming record of its key, null for
\* the fields the incoming frame does not carry.
C3_SaleFullOverwrite ==
  \A k \in DOMAIN calls :
    (calls[k].table = "auction_sales" /\ ~calls[k].raised) =>
      LET old == calls[k].pre["auction_sales"]
          new == calls[k].post["auction_sales"]
      IN \A i \in DOMAIN old :
           LET given == SameKey(calls[k], old[i])
           IN given # {} =>
                new[i] = FullRow("auction_sales", calls[k].df.cols,
                                 calls[k].df.rows[MaxOf(given)])

\* C4: an execute_insert call on grade_summary or market_commentary leaves
\* every stored row as it was, provenance included, and inserts each incoming
\* record whose key is not stored.
C4_InsertIfAbsent ==
  \A k \in DOMAIN calls :
    (calls[k].table \in {"grade_summary", "market_commentary"} /\ ~calls[k].raised) =>
      LET t == calls[k].table
          old == calls[k].pre[t]
          new == calls[k].post[t]
          rows == calls[k].df.rows
      IN /\ \A i \in DOMAIN old : i \in DOMAIN new /\ new[i] = old[i]
         /\ \A j \in DOMAIN rows :
              LET row == FullRow(t, calls[k].df.cols, rows[j])
              IN (\A i \in DOMAIN old : KeyOf(t, old[i]) # KeyOf(t, row)) =>
                   \E i \in DOMAIN new \ DOMAIN old :
                     new[i] = FullRow(t, calls[k].df.cols,
                                      rows[MinOf(SameKey(calls[k], row))])

\* one handler met a stored summary row of the same key with other values and
\* left it, and inserted a summary row whose key was not stored
C4_Witness ==
  /\ \E k \in DOMAIN calls :
       /\ calls[k].table = "grade_summary" /\ ~calls[k].raised
       /\ \E i \in DOMAIN calls[k].pre["grade_summary"] :
            \E j \in SameKey(calls[k], calls[k].pre["grade_summary"][i]) :
              LET row == FullRow("grade_summary", calls[k].df.cols, calls[k].df.rows[j])
              IN /\ row["lots"] # calls[k].pre["grade_summary"][i]["lots"]
                 /\ row["processed_timestamp"]
                      # calls[k].pre["grade_summary"][i]["processed_timestamp"]
                 /\ calls[k].post["grade_summary"][i] = calls[k].pre["grade_summary"][i]
  /\ \E k \in DOMAIN calls :
       /\ calls[k].table = "grade_summary" /\ ~calls[k].raised
       /\ Len(calls[k].post["grade_summary"]) > Len(calls[k].pre["grade_summary"])

(***************************************************************************)
(* Properties of run_processor and of the ledger                           *)
(***************************************************************************)
\* the run that left finished[i] was the second of two runs over the same
\* input set, and the engine raised no error of its own in either
RepeatedRun(i) ==
  /\ i > 1
  /\ finished[i].dir = finished[i - 1].dir
  /\ finished[i].faults = finished[i - 1].faults
  /\ finished[i - 1].faults = IF i = 2 THEN 0 ELSE finished[i - 2].faults

Masked(t, row) ==
  [c \in DOMAIN row |->
     IF c = "processed_timestamp" \/ (t = "processing_log" /\ c = "records_inserted")
       THEN "-" ELSE row[c]]

MaskedRows(t, tbl) == {Masked(t, tbl[i]) : i \in DOMAIN tbl}

Ledger == db["processing_log"]

\* the ledger entries of a store for the pair <<file_identifier, data_type>>
Entries(tbl, pair) ==
  {i \in DOMAIN tbl : <<tbl[i].file_identifier, tbl[i].data_type>> = pair}

\* C6: the ledger holds at most one entry per (file_identifier, data_type);
\* the entry has the status and the record count of the latest log_processed
\* call for the pair, and on a working store every pair logged has its entry.
C6_LedgerOverwrite ==
  /\ \A i \in DOMAIN Ledger :
       LET pair == <<Ledger[i].file_identifier, Ledger[i].data_type>>
       IN /\ Entries(Ledger, pair) = {i}
          /\ pair \in DOMAIN last_log
          /\ Ledger[i].status = last_log[pair].status
          /\ Ledger[i].records_inserted = last_log[pair].count
  /\ storage = "ok" => \A pair \in DOMAIN last_log : Entries(Ledger, pair) # {}

\* a pair logged by the first run has been logged again with another count
C6_Witness ==
  /\ Len(finished) >= 1
  /\ \E i \in DOMAIN Ledger :
       \E j \in Entries(finished[1].store["processing_log"],
                        <<Ledger[i].file_identifier, Ledger[i].data_type>>) :
         /\ Ledger[i].records_inserted
              # finished[1].store["processing_log"][j].records_inserted
         /\ Ledger[i].processed_timestamp
              # finished[1].store["processing_log"][j].processed_timestamp

\* C7: when the batch of an execute_insert call raised, the call returned 0 and
\* the ledger entry of its file/kind pair has a status other than SUCCESS.
C7_FailureLogged ==
  \A k \in DOMAIN calls :
    (calls[k].raised /\ storage = "ok") =>
      /\ calls[k].ret = 0
      /\ \E i \in Entries(Ledger, <<calls[k].file_identifier, calls[k].data_type>>) :
           Ledger[i].status # "SUCCESS"

\* C8: an execute_insert call whose batch raised leaves the whole store, the
\* ledger included, as it was before the call; a call that did not raise
\* leaves a stored row for the key of every record of its frame.
C8_BatchAtomicity ==
  \A k \in DOMAIN calls :
    /\ calls[k].raised => calls[k].post = calls[k].pre
    /\ ~calls[k].raised =>
         \A j \in DOMAIN calls[k].df.rows :
           \E i \in DOMAIN calls[k].post[calls[k].table] :
             j \in SameKey(calls[k], calls[k].post[calls[k].table][i])

\* a batch of two records failed at its second record, on a store that held
\* rows and ledger entries of earlier batches, and left the store as it was
C8_Witness ==
  /\ handled.fault.row = 2
  /\ \E k \in DOMAIN calls :
       /\ calls[k].raised
       /\ k = handled.fault.sheet
       /\ Len(calls[k].df.rows) = 2
       /\ calls[k].pre["processing_log"] # <<>>
       /\ calls[k].pre["auction_offers"] # <<>>
       /\ calls[k].post = calls[k].pre
       /\ db["auction_offers"] = calls[k].pre["auction_offers"]

\* C9: after a failed initialize_database no file of the run is handed to a
\* handler.
C9_NoDispatchAfterFailedInit == init_failed => dispatched = {}

\* C10: on a working store, when a tabular handler has ended, the ledger holds
\* an entry written by this attempt for a file/kind pair of the file.
C10_AttemptLogged ==
  (handled.tabular /\ storage = "ok") =>
    /\ handled.logs # <<>>
    /\ \A k \in DOMAIN handled.logs :
         Entries(Ledger, <<handled.logs[k].file_identifier, handled.logs[k].data_type>>)
           # {}

(***************************************************************************)
(* Failure isolation and ingest-once                                       *)
(***************************************************************************)
\* the names of the files of a listing that run_processor hands to a handler
HandlerNames(files) ==
  {f.name : f \in {g \in structured_files(files) : Route(g.name) # "skip"}
                   \cup unstructured_files(files)}

\* C11: whatever failed inside the handlers so far, every file of the listing
\* that has a handler has been handed to it or is still waiting in the loops,
\* and a run that has returned has handed every such file to its handler.
C11_FailureIsolation ==
  /\ pc = "files" =>
       HandlerNames(dir) = dispatched \cup HandlerNames(Range(queue))
  /\ \A i \in DOMAIN finished :
       finished[i].dispatched = HandlerNames(finished[i].dir)

\* a run has returned in which the handler of one file raised into its except
\* clause and a file later in the loops went through its handler
C11_Witness ==
  \E i \in DOMAIN finished :
    \E a \in finished[i].failed : \E b \in finished[i].dispatched :
      /\ IndexOf(NameOrder, a) < IndexOf(NameOrder, b)
      /\ \E f \in finished[i].dir :
           f.name = a /\ (~f.openable \/ \E k \in DOMAIN f.sheets : ~f.sheets[k].readable)

\* the file at the head of the loops is an unstructured report whose
\* (file, COMMENTARY) pair the ledger records as SUCCESS
AlreadyIngested ==
  /\ pc = "files" /\ queue # <<>>
  /\ Head(queue) \in unstructured_files({Head(queue)})
  /\ \E i \in Entries(Ledger, <<get_file_identifier(Head(queue).name, NULL),
                                 DATA_TYPE_COMMENTARY>>) :
       Ledger[i].status = "SUCCESS"

\* C12: a step taken when the ledger holds a SUCCESS entry for the unstructured
\* file at the head of the loops is the handler of that file, and it changes
\* neither market_commentary nor the ledger, makes no execute_insert call and
\* no ledger write.
C12_IngestOnce ==
  [][AlreadyIngested =>
       /\ handled'.name = Head(queue).name
       /\ db'["market_commentary"] = db["market_commentary"]
       /\ db'["processing_log"] = db["processing_log"]
       /\ committed'["market_commentary"] = committed["market_commentary"]
       /\ committed'["processing_log"] = committed["processing_log"]
       /\ calls' = <<>> /\ handled'.logs = <<>>]_vars

\* a later run has handed an unstructured file to its handler again, the file
\* now without extractable text, and the ledger entry the earlier run wrote
\* for it is still there with its timestamp and its count of one
C12_Witness ==
  /\ runs = 2 /\ pc = "files"
  /\ ~handled.tabular /\ handled.name \in dispatched /\ handled.logs = <<>>
  /\ \E f \in dir : f.name = handled.name /\ f.text = NULL
  /\ \E i \in Entries(Ledger, <<handled.name, DATA_TYPE_COMMENTARY>>) :
       /\ Ledger[i].status = "SUCCESS"
       /\ Ledger[i].processed_timestamp = "1"
       /\ Ledger[i].records_inserted = 1
  /\ Len(db["market_commentary"]) = 1

(***************************************************************************)
(* Properties of the record normalizer                                     *)
(***************************************************************************)
\* a cell of a stored row or of a frame that holds no value
Null(x) == x \in {NULL, NaN}

\* C13: every stored sale has a price and a buyer, and every frame
\* load_lot_details hands to execute_insert for auction_sales carries the
\* columns price and buyer with a value in every row.
C13_SalesHavePriceAndBuyer ==
  /\ \A store \in {db, committed} : \A i \in DOMAIN store["auction_sales"] :
       ~Null(store["auction_sales"][i]["price"]) /\ ~Null(store["auction_sales"][i]["buyer"])
  /\ \A k \in DOMAIN calls :
       calls[k].table = "auction_sales" =>
         /\ {"price", "buyer"} \subseteq calls[k].df.cols
         /\ \A j \in DOMAIN calls[k].df.rows :
              ~Null(calls[k].df.rows[j]["price"]) /\ ~Null(calls[k].df.rows[j]["buyer"])

\* a report with a sale without price, a sale whose buyer is a noise token and
\* a complete sale has been loaded: only the complete sale is stored
C13_Witness ==
  /\ handled.name = GR /\ storage = "ok"
  /\ \E f \in dir :
       /\ f.name = GR /\ f.openable /\ f.sheets # <<>>
       /\ {SaleRow("L2", "I2", NaN, "BY1"), SaleRow("L3", "I3", "5", " nil "),
           SaleRow("L1", NaN, "5", "BY2")} \subseteq Range(f.sheets[1].grid)
  /\ Len(calls) = 1 /\ ~calls[1].raised /\ calls[1].table = "auction_sales"
  /\ Len(calls[1].df.rows) = 1
  /\ calls[1].df.rows[1]["lot_number"] = "L1"
  /\ \E i \in DOMAIN db["auction_sales"] : db["auction_sales"][i]["lot_number"] = "L1"
  /\ \A i \in DOMAIN db["auction_sales"] : db["auction_sales"][i]["lot_number"] = "L1"

\* the grid of the sheet an execute_insert call of the last handler came from
SourceGrid(call) ==
  LET f == CHOOSE g \in dir : g.name = handled.name
      k == CHOOSE i \in DOMAIN f.sheets :
             get_file_identifier(f.name, f.sheets[i].name) = call.file_identifier
  IN f.sheets[k].grid

\* the cells of row i of a grid under the headers (row 1) that are among aliases
Cells(grid, i, aliases) ==
  {grid[i][c] : c \in {d \in DOMAIN grid[1] : grid[1][d] \in Range(aliases)}}

\* the aliases of a canonical field in COLUMN_MAP_LOT_DETAILS
AliasesOf(db_col) ==
  COLUMN_MAP_LOT_DETAILS[CHOOSE f \in DOMAIN COLUMN_MAP_LOT_DETAILS :
                           COLUMN_MAP_LOT_DETAILS[f][1] = db_col][2]

\* row i of the grid has a broker, a lot number, a grade and a mark
HasOtherFields(grid, i) ==
  \A db_col \in {"broker", "lot_number", "grade", "mark"} :
    \E x \in Cells(grid, i, AliasesOf(db_col)) : CleanText(x) # NULL

\* the calls of the last handler on auction_offers for a sheet read with its
\* first row as header, while the file is still the one in the directory
OfferCalls ==
  {k \in DOMAIN calls :
     /\ pc = "files" /\ calls[k].table = "auction_offers"
     /\ Route(handled.name) \in {"auctionsummary", "catalogue"}}

\* C14: for every sheet row of an offer file that has a broker, a lot number,
\* a grade and a mark but no valuation (an empty or unparseable cell, or no
\* valuation column), the frame handed to execute_insert has a record of that
\* broker and lot with a null valuation, and when the batch did not raise a
\* row of its key is stored, with a null valuation when the key was not
\* stored before and no record of the batch gives one.
C14_OfferWithoutValuationKept ==
  \A k \in OfferCalls :
    LET grid == SourceGrid(calls[k])
        df == calls[k].df
    IN \A i \in 2..Len(grid) :
         (/\ HasOtherFields(grid, i)
          /\ \A x \in Cells(grid, i, AliasesOf("valuation_or_rp")) :
               ToNumeric(Str(x)) = NULL) =>
           \E j \in DOMAIN df.rows :
             LET row == FullRow("auction_offers", df.cols, df.rows[j])
             IN /\ \E x \in Cells(grid, i, AliasesOf("broker")) :
                     row["broker"] = CleanText(x)
                /\ \E x \in Cells(grid, i, AliasesOf("lot_number")) :
                     row["lot_number"] = CleanText(x)
                /\ row["valuation_or_rp"] = NULL
                /\ ~calls[k].raised =>
                     \E n \in DOMAIN calls[k].post["auction_offers"] :
                       LET stored == calls[k].post["auction_offers"][n]
                       IN /\ KeyOf("auction_offers", stored) = KeyOf("auction_offers", row)
                          /\ (n \notin DOMAIN calls[k].pre["auction_offers"]
                              /\ Given(calls[k], row, "valuation_or_rp") = {})
                               => stored["valuation_or_rp"] = NULL

\* an offer whose valuation cell holds no number has been stored as a new row
\* with a null valuation, and after it the offer of a catalogue without
\* valuation column
C14_Witness ==
  \E k \in OfferCalls :
    /\ handled.name = SC /\ ~calls[k].raised
    /\ "valuation_or_rp" \notin calls[k].df.cols
    /\ Cells(SourceGrid(calls[k]), 2, AliasesOf("valuation_or_rp")) = {}
    /\ HasOtherFields(SourceGrid(calls[k]), 2)
    /\ Len(calls[k].pre["auction_offers"]) = 1
    /\ calls[k].pre["auction_offers"][1]["source_file_identifier"]
         = get_file_identifier(AS, "Detail")
    /\ calls[k].pre["auction_offers"][1]["valuation_or_rp"] = NULL
    /\ Len(calls[k].post["auction_offers"]) = 2
    /\ calls[k].post["auction_offers"][2]["valuation_or_rp"] = NULL
    /\ calls[k].post["auction_offers"][2]["mark"] = "RUIRU"

\* the sheet a ledger write of the last handler is about has a header row with
\* a lot number column and a broker column (process_complete_offer_lots sets
\* the broker column itself)
HasLotAndBroker(log) ==
  LET grid == SourceGrid(log)
      named(h, db_col) ==
        \E c \in DOMAIN grid[h] : \E a \in DOMAIN AliasesOf(db_col) :
          StripLower(Str(grid[h][c])) = StripLower(AliasesOf(db_col)[a])
  IN \E h \in DOMAIN grid :
       /\ named(h, "lot_number")
       /\ named(h, "broker") \/ Route(handled.name) = "completeofferlots"

\* C15: a sheet of lots that has a lot number column and a broker column never
\* ends in a FAILED status, whatever other column it lacks.
C15_SchemaDriftNeverAborts ==
  pc = "files" =>
    \A k \in DOMAIN handled.logs :
      (handled.logs[k].data_type \in {DATA_TYPE_OFFER, DATA_TYPE_SALE}
       /\ HasLotAndBroker(handled.logs[k])) =>
        handled.logs[k].status \notin {"FAILED_MISSING_COLS", "FAILED_PROCESSING"}

\* a text cell without value: null, or one of the noise tokens
Missing(x) == Null(x) \/ x \in noise_values

\* C16: every stored offer and sale has a lot number and a broker, and so has
\* every row load_lot_details hands to execute_insert.
C16_LotAndBrokerNeverNull ==
  /\ \A store \in {db, committed} : \A t \in {"auction_offers", "auction_sales"} :
       \A i \in DOMAIN store[t] :
         ~Missing(store[t][i]["lot_number"]) /\ ~Missing(store[t][i]["broker"])
  /\ \A k \in DOMAIN calls :
       calls[k].table \in {"auction_offers", "auction_sales"} =>
         /\ {"lot_number", "broker"} \subseteq calls[k].df.cols
         /\ \A j \in DOMAIN calls[k].df.rows :
              /\ ~Missing(calls[k].df.rows[j]["lot_number"])
              /\ ~Missing(calls[k].df.rows[j]["broker"])

\* a sheet with an offer without broker and a complete offer has been loaded:
\* only the complete offer went to the store
C16_Witness ==
  /\ handled.name = AS /\ storage = "ok"
  /\ \E f \in dir :
       /\ f.name = AS /\ f.openable /\ f.sheets # <<>>
       /\ f.sheets[1].readable
       /\ OfferRow(NaN, "L1", "I1", "10") \in Range(f.sheets[1].grid)
  /\ Len(calls) >= 1 /\ ~calls[1].raised /\ calls[1].table = "auction_offers"
  /\ Len(calls[1].df.rows) = 1
  /\ calls[1].df.rows[1]["lot_number"] = "L2"
  /\ \E i \in DOMAIN db["auction_offers"] : db["auction_offers"][i]["lot_number"] = "L2"

Digits == {"0", "1", "2", "3", "4", "5", "6", "7", "8", "9"}

\* the sale numbers of shape YYYY-NN for the years of the model's dates
YearAndTwoDigits == {y \o "-" \o a \o b : y \in {"2024", "2025"}, a \in Digits, b \in Digits}

\* C17: the sale number of every stored offer and sale is the unknown sentinel
\* or a year, a dash and two digits.
C17_SaleNumberShape ==
  \A store \in {db, committed} : \A t \in {"auction_offers", "auction_sales"} :
    \A i \in DOMAIN store[t] :
      store[t][i]["sale_number"] \in {Unknown} \cup YearAndTwoDigits

(***************************************************************************)
(* Properties of the metadata resolver                                     *)
(***************************************************************************)
\* extract_metadata has been called and has returned md
Extracted(md) == invoked.op = "extract_metadata" /\ yielded = <<md>>

\* C18: extract_metadata returns a sale number and a sale date that are never
\* null: each is a value or "Unknown", whatever the file name and the frame.
C18_MetadataNeverNull ==
  (invoked.op = "extract_metadata" /\ yielded # <<>>) =>
    /\ DOMAIN yielded[1] = {"sale_number", "sale_date"}
    /\ ~Null(yielded[1].sale_number) /\ yielded[1].sale_number # ""
    /\ ~Null(yielded[1].sale_date) /\ yielded[1].sale_date # ""

\* a file name that matches no pattern with a frame whose first sale code is no
\* sale code and whose first date is no date: both values are "Unknown"
C18_Witness ==
  /\ invoked.op = "extract_metadata" /\ invoked.filename = AQ
  /\ invoked.df # NoFrame /\ Len(invoked.df.rows) = 2
  /\ invoked.df.rows[1]["Sale Code"] = "Lot list"
  /\ invoked.df.rows[1]["Selling End Time"] = "x"
  /\ Extracted([sale_number |-> Unknown, sale_date |-> Unknown])

NoMetadata == [sale_number |-> NULL, sale_date |-> NULL]

\* what each strategy of extract_metadata determines when taken alone; the
\* sale number of the internal columns is built with the sale date as hint
StepA(filename) == FilenamePattern1(filename)
StepB(filename) == FilenamePattern2(NoMetadata, filename)
StepC(df, sale_date) ==
  IF df = NoFrame THEN NoMetadata
  ELSE InternalData([sale_number |-> NULL, sale_date |-> sale_date],
                    Rename(df, map_columns(df.columns, COLUMN_MAP_LOT_DETAILS).mapping))

\* the first value of a sequence that is not None, NULL when there is none
FirstDetermined(values) ==
  LET determined == {i \in DOMAIN values : values[i] # NULL}
  IN IF determined = {} THEN NULL ELSE values[MinOf(determined)]

OrUnknown(x) == IF x = NULL THEN Unknown ELSE x

\* every field taken from the first of the strategies A, B, internal columns
\* that determines it
ChainPerField(filename, df) ==
  LET sale_date == FirstDetermined(<<StepA(filename).sale_date, StepB(filename).sale_date,
                                     StepC(df, NULL).sale_date>>)
  IN [sale_number |-> OrUnknown(FirstDetermined(<<StepA(filename).sale_number,
                                                  StepB(filename).sale_number,
                                                  StepC(df, sale_date).sale_number>>)),
      sale_date |-> OrUnknown(sale_date)]

\* as ChainPerField, but strategy B is tried only for a file name that strategy
\* A gave no sale number
ChainGated(filename, df) ==
  LET tried_b == IF StepA(filename).sale_number = NULL THEN StepB(filename) ELSE NoMetadata
      sale_date == FirstDetermined(<<StepA(filename).sale_date, tried_b.sale_date,
                                     StepC(df, NULL).sale_date>>)
  IN [sale_number |-> OrUnknown(FirstDetermined(<<StepA(filename).sale_number,
                                                  tried_b.sale_number,
                                                  StepC(df, sale_date).sale_number>>)),
      sale_date |-> OrUnknown(sale_date)]

\* C19: extract_metadata returns, for the sale number and for the sale date
\* independently, the value of the first of the strategies file name pattern A,
\* file name pattern B, internal columns that determines the field.
C19_FirstStepPerField ==
  (invoked.op = "extract_metadata" /\ yielded # <<>>) =>
    yielded[1] = ChainPerField(invoked.filename, invoked.df)

\* C19 as amended: the same, except that file name pattern B is tried only when
\* pattern A determined no sale number; a value a file name pattern determined
\* is never replaced by one of the internal columns.
C19_FirstStepGated ==
  (invoked.op = "extract_metadata" /\ yielded # <<>>) =>
    /\ yielded[1] = ChainGated(invoked.filename, invoked.df)
    /\ \A field \in {"sale_number", "sale_date"} :
         LET by_name == FirstDetermined(<<StepA(invoked.filename)[field],
                                          FilenamePattern2(StepA(invoked.filename),
                                                           invoked.filename)[field]>>)
         IN by_name # NULL => yielded[1][field] = by_name

\* a file name that matches both patterns, pattern A with a 6-digit token that
\* is no date: the sale number is that of pattern A, the date of pattern B is
\* not taken, and the date comes from the internal column
C19_Witness ==
  /\ invoked.op = "extract_metadata"
  /\ StepA(invoked.filename).sale_number = "2025-36"
  /\ StepA(invoked.filename).sale_date = NULL
  /\ StepB(invoked.filename).sale_date = "2025-09-01"
  /\ invoked.df # NoFrame /\ "Selling End Time" \in Range(invoked.df.columns)
  /\ invoked.df.rows[1]["Selling End Time"] = "08/09/2025 10:00:00"
  /\ Extracted([sale_number |-> "2025-36", sale_date |-> "2025-09-08"])

(***************************************************************************)
(* Properties of the mark resolution                                       *)
(***************************************************************************)
\* the columns of a frame whose header is an alias of the mark, and the index
\* of that alias in MARK_ALIASES
MarkCandidates(df) ==
  {c \in Range(df.columns) :
     \E a \in DOMAIN AliasesOf("mark") : StripLower(c) = StripLower(AliasesOf("mark")[a])}

MarkRank(c) ==
  MinOf({a \in DOMAIN AliasesOf("mark") : StripLower(c) = StripLower(AliasesOf("mark")[a])})

\* the cleaned value of the best ranked candidate that has one, NULL for none
BestMark(df, j) ==
  LET valued == {c \in MarkCandidates(df) : CleanText(df.rows[j][c]) # NULL}
  IN IF valued = {} THEN NULL
     ELSE CleanText(df.rows[j][CHOOSE c \in valued :
                                 \A d \in valued : MarkRank(c) <= MarkRank(d)])

\* C20: the mark of every row is the cleaned value of the candidate column of
\* the best alias rank that has a value in the row, and null when none has,
\* wherever the columns stand in the sheet.
C20_MarkByAliasPriority ==
  (invoked.op = "resolved_mark" /\ yielded # <<>>) =>
    \A j \in DOMAIN invoked.df.rows : yielded[1][j] = BestMark(invoked.df, j)

(***************************************************************************)
(* Properties of the alias resolver and of the header location             *)
(***************************************************************************)
\* the fields of an alias table other than the mark
NonMarkFields(mapping_dict) ==
  {f \in DOMAIN mapping_dict : mapping_dict[f][1] # "mark"}

\* the raw headers that match alias k of field f of the table
HeadersOf(df_columns, mapping_dict, f, k) ==
  {h \in Range(df_columns) : StripLower(h) = StripLower(mapping_dict[f][2][k])}

\* the index of the first alias of field f that a header matches, 0 for none
BestAlias(df_columns, mapping_dict, f) ==
  LET present == {k \in DOMAIN mapping_dict[f][2] :
                    HeadersOf(df_columns, mapping_dict, f, k) # {}}
  IN IF present = {} THEN 0 ELSE MinOf(present)

\* the raw headers a mapping gives to the canonical field db_col
MappedTo(mapping, db_col) == {h \in DOMAIN mapping : mapping[h] = db_col}

\* map_columns has been called on the header row and the alias table
MapColumnsCalled == invoked.op = "map_columns" /\ yielded # <<>>

\* C21: for every field but the mark, map_columns maps to the field exactly
\* the raw header that matches the first alias of the field found in the sheet
\* and no other header, and gives the same mapping for every order of the
\* columns and of the fields of the alias table.
C21_AliasOrder ==
  MapColumnsCalled =>
    /\ \A f \in NonMarkFields(invoked.mapping_dict) :
         LET best == BestAlias(invoked.df_columns, invoked.mapping_dict, f)
         IN MappedTo(yielded[1].mapping, invoked.mapping_dict[f][1])
              = IF best = 0 THEN {}
                ELSE HeadersOf(invoked.df_columns, invoked.mapping_dict, f, best)
    /\ \A f \in NonMarkFields(invoked.mapping_dict) :
         Cardinality(MappedTo(yielded[1].mapping, invoked.mapping_dict[f][1])) <= 1
    /\ \A other \in HeaderRows : \A table \in AliasTables :
         (Range(other) = Range(invoked.df_columns)
          /\ Range(table) = Range(invoked.mapping_dict)) =>
           map_columns(other, table).mapping = yielded[1].mapping

\* the last header of the row among those that match alias k of field f
LastHeader(df_columns, mapping_dict, f, k) ==
  df_columns[MaxOf({i \in DOMAIN df_columns :
                      df_columns[i] \in HeadersOf(df_columns, mapping_dict, f, k)})]

\* no two headers of the row have the same normalized name
DistinctNormalized(df_columns) ==
  \A i, j \in DOMAIN df_columns :
    StripLower(df_columns[i]) = StripLower(df_columns[j]) => i = j

\* C21 as amended: of the raw headers that normalize identically only the last
\* of the sheet takes part.  For every field but the mark, map_columns maps to
\* the field the header that matches the first alias of the field found in the
\* sheet and no other header; the mapping is the same for every order of the
\* fields of the alias table, and for every order of the columns of a sheet
\* whose headers normalize to different names.
C21_AliasOrderLastHeader ==
  MapColumnsCalled =>
    /\ \A f \in NonMarkFields(invoked.mapping_dict) :
         LET best == BestAlias(invoked.df_columns, invoked.mapping_dict, f)
         IN MappedTo(yielded[1].mapping, invoked.mapping_dict[f][1])
              = IF best = 0 THEN {}
                ELSE {LastHeader(invoked.df_columns, invoked.mapping_dict, f, best)}
    /\ \A table \in AliasTables :
         Range(table) = Range(invoked.mapping_dict) =>
           map_columns(invoked.df_columns, table).mapping = yielded[1].mapping
    /\ DistinctNormalized(invoked.df_columns) =>
         \A other \in HeaderRows :
           Range(other) = Range(invoked.df_columns) =>
             map_columns(other, invoked.mapping_dict).mapping = yielded[1].mapping

\* a sheet with the second alias of the lot number before the first, in two
\* spellings of the first: the last spelling of the first alias is mapped
C21_Witness ==
  /\ MapColumnsCalled
  /\ invoked.df_columns = <<"Lot No", "lotno", "LotNo">>
  /\ invoked.mapping_dict = Reverse(COLUMN_MAP_LOT_DETAILS)
  /\ yielded[1].mapping = ("LotNo" :> "lot_number")

\* row i (from 1) of the grid names enough of the keywords
Qualifies(grid, i, keywords) ==
  Cardinality({k \in DOMAIN keywords :
                 /\ \A l \in 1..(k - 1) : StripLower(keywords[l]) # StripLower(keywords[k])
                 /\ \E j \in DOMAIN grid[i] :
                      grid[i][j] # NaN /\ StripLower(Str(grid[i][j])) = StripLower(keywords[k])})
    >= (IF Len(keywords) < 3 THEN Len(keywords) ELSE 3)

\* C22: find_header_row returns the zero-based index of the first row of the
\* scan window that names enough keywords, and not-found when the window
\* holds no such row, also when a later row of the sheet is one.
C22_FirstQualifyingRow ==
  (invoked.op = "find_header_row" /\ yielded # <<>>) =>
    LET window == {i \in DOMAIN invoked.grid :
                     i <= invoked.max_scan_rows
                     /\ Qualifies(invoked.grid, i, invoked.keywords)}
    IN IF window = {} THEN yielded[1] = NotFound
       ELSE yielded[1] + 1 \in window /\ \A i \in window : yielded[1] + 1 <= i

\* three rows without enough keywords followed by a header row, searched with
\* a window of three rows: the header row is not found
C22_Witness ==
  /\ invoked.op = "find_header_row" /\ yielded # <<>>
  /\ invoked.keywords = HEADER_KEYWORDS
  /\ invoked.grid = << <<NaN, NaN, NaN, NaN>>, <<"Offer list", NaN, NaN, NaN>>,
                       <<"LotNo", "lotno", "Garden", NaN>>,
                       <<"lotno", " GARDEN ", NaN, "Grade">> >>
  /\ invoked.max_scan_rows = 3 /\ yielded[1] = NotFound

(***************************************************************************)
(* Properties of the ledger statuses and of the metadata filter            *)
(***************************************************************************)
StatusValues ==
  {"SUCCESS", "SUCCESS_NO_DATA", "FAILED_MISSING_COLS", "FAILED_PROCESSING",
   "FAILED_EXTRACTION", "FAILED_DYNAMIC_HEADER"}

\* the status values the ledger of a store holds
StatusesOf(store) ==
  {store["processing_log"][i].status : i \in DOMAIN store["processing_log"]}

\* C23: every status written to the ledger, and every status a handler hands
\* to log_processed, is one of the six status values.
C23_StatusValues ==
  /\ StatusesOf(db) \subseteq StatusValues
  /\ StatusesOf(committed) \subseteq StatusValues
  /\ \A k \in DOMAIN handled.logs : handled.logs[k].status \in StatusValues
  /\ \A pair \in DOMAIN last_log : last_log[pair].status \in StatusValues
  /\ \A i \in DOMAIN finished : StatusesOf(finished[i].store) \subseteq StatusValues

\* the ledger holds entries of four kinds after a workbook with a good sheet, a
\* sheet without header and a sheet without grade column, and a document
\* without text
C23_Witness ==
  /\ {"SUCCESS", "FAILED_DYNAMIC_HEADER", "FAILED_PROCESSING", "FAILED_EXTRACTION"}
       \subseteq StatusesOf(committed)

\* the raw headers of a frame that are aliases of the field db_col
AliasHeaders(df, db_col) ==
  {c \in Range(df.columns) :
     \E a \in DOMAIN AliasesOf(db_col) : StripLower(c) = StripLower(AliasesOf(db_col)[a])}

\* the head of the queue is a General Report whose sale number or sale date is
\* "Unknown" for the file and has no column of its own in the sheet
Indeterminate ==
  /\ pc = "files" /\ queue # <<>>
  /\ Route(Head(queue).name) = "generalreport"
  /\ Head(queue).openable /\ Head(queue).sheets # <<>>
  /\ Head(queue).sheets[1].name = "General Report" /\ Head(queue).sheets[1].readable
  /\ LET df == read_excel(Head(queue).sheets[1].grid, 0)
         md == extract_metadata(Head(queue).name, df)
     IN \/ md.sale_number = Unknown /\ AliasHeaders(df, "sale_number_internal") = {}
        \/ md.sale_date = Unknown /\ AliasHeaders(df, "sale_date_internal") = {}

\* C24: the step that handles a file whose sale number or sale date is unknown,
\* with no value in the rows, calls execute_insert for none of its rows, leaves
\* the canonical tables as they are and logs SUCCESS_NO_DATA with count 0.
C24_UnknownMetadataNoData ==
  [][Indeterminate =>
       /\ handled'.name = Head(queue).name
       /\ calls' = <<>>
       /\ \A t \in CanonicalTables : db'[t] = db[t] /\ committed'[t] = committed[t]
       /\ Len(handled'.logs) = 1
       /\ handled'.logs[1].status = "SUCCESS_NO_DATA" /\ handled'.logs[1].count = 0
       /\ handled'.logs[1].data_type = DATA_TYPE_SALE
       /\ storage = "ok" =>
            \E i \in DOMAIN committed'["processing_log"] :
              /\ committed'["processing_log"][i].file_identifier
                   = handled'.logs[1].file_identifier
              /\ committed'["processing_log"][i].status = "SUCCESS_NO_DATA"
              /\ committed'["processing_log"][i].records_inserted = 0]_vars

\* a report with sale codes and without date column has been handled after a
\* run stored a sale: the sale is still the only one and the ledger holds the
\* SUCCESS_NO_DATA entry
C24_Witness ==
  /\ handled.name = GR /\ storage = "ok" /\ calls = <<>>
  /\ \E f \in dir :
       /\ f.name = GR /\ f.openable /\ f.sheets # <<>> /\ f.sheets[1].readable
       /\ f.sheets[1].name = "General Report"
       /\ AliasHeaders(read_excel(f.sheets[1].grid, 0), "sale_date_internal") = {}
       /\ Len(f.sheets[1].grid) = 2
  /\ Len(handled.logs) = 1 /\ handled.logs[1].status = "SUCCESS_NO_DATA"
  /\ Len(db["auction_sales"]) = 1
  /\ \E i \in DOMAIN Ledger : Ledger[i].status = "SUCCESS_NO_DATA"
                                 /\ Ledger[i].records_inserted = 0

(***************************************************************************)
(* Properties of the history of the store                                  *)
(***************************************************************************)
\* the natural keys of the rows of table t of a store
KeysOf(store, t) == {KeyOf(t, store[t][i]) : i \in DOMAIN store[t]}

\* C25: no step removes a natural key from a canonical table, neither from the
\* store as the connection sees it nor from the durable store, and every
\* execute_insert call, also one whose batch failed, leaves the keys it found.
C25_KeysOnlyGrow ==
  [][\A t \in CanonicalTables :
       /\ KeysOf(db, t) \subseteq KeysOf(db', t)
       /\ KeysOf(committed, t) \subseteq KeysOf(committed', t)
       /\ \A k \in DOMAIN calls' :
            KeysOf(calls'[k].pre, t) \subseteq KeysOf(calls'[k].post, t)]_vars

\* a batch of sales failed on a store that held a sale: the sale is still there
C25_Witness ==
  /\ handled.fault # NoFault /\ storage = "ok"
  /\ \E k \in DOMAIN calls :
       /\ calls[k].raised /\ calls[k].table = "auction_sales"
       /\ KeysOf(calls[k].pre, "auction_sales") # {}
       /\ KeysOf(calls[k].pre, "auction_sales") = KeysOf(db, "auction_sales")
       /\ calls[k].df.rows # <<>>

(***************************************************************************)
(* Properties of the row metadata                                          *)
(***************************************************************************)
\* the General Report sheet of the file the last handler was given
ReportGrid ==
  LET f == CHOOSE g \in dir : g.name = handled.name IN f.sheets[1].grid

\* the last handler was process_standard_format on a General Report it could read
ReportHandled ==
  /\ pc = "files" /\ handled.name = GR
  /\ \E f \in dir :
       /\ f.name = GR /\ f.openable /\ f.sheets # <<>>
       /\ f.sheets[1].name = "General Report" /\ f.sheets[1].readable

\* row i of the grid is a sale with every required field and a sale date, and
\* a sale code cell that is no sale code
SaleWithoutCode(grid, i) ==
  /\ HasOtherFields(grid, i)
  /\ \E x \in Cells(grid, i, AliasesOf("buyer")) : CleanText(x) # NULL
  /\ \E x \in Cells(grid, i, AliasesOf("price")) : ToNumeric(Str(x)) # NULL
  /\ \E x \in Cells(grid, i, AliasesOf("sale_date_internal")) : parse_date(x, NULL) # NULL
  /\ Cells(grid, i, AliasesOf("sale_number_internal")) # {}
  /\ \A x \in Cells(grid, i, AliasesOf("sale_number_internal")) :
       extract_sale_number_from_string(Str(x), NULL) = Unknown

\* C26: a sale of a General Report whose own sale code gives no sale number
\* goes to execute_insert with the sale number of the file when the file has
\* one; it is not dropped for its sale code.
C26_BackfillFromFile ==
  ReportHandled =>
    \A i \in 2..Len(ReportGrid) :
      (/\ SaleWithoutCode(ReportGrid, i)
       /\ extract_metadata(GR, read_excel(ReportGrid, 0)).sale_number # Unknown) =>
        \E k \in DOMAIN calls : \E j \in DOMAIN calls[k].df.rows :
          /\ \E x \in Cells(ReportGrid, i, AliasesOf("lot_number")) :
               calls[k].df.rows[j]["lot_number"] = CleanText(x)
          /\ calls[k].df.rows[j]["sale_number"]
               = extract_metadata(GR, read_excel(ReportGrid, 0)).sale_number


(***************************************************************************)
(* Properties of the unstructured reports                                  *)
(***************************************************************************)
\* the files the ledger records as SUCCESS for the kind COMMENTARY
CommentaryLogged ==
  {Ledger[i].file_identifier :
     i \in {j \in DOMAIN Ledger : /\ Ledger[j].data_type = DATA_TYPE_COMMENTARY
                                  /\ Ledger[j].status = "SUCCESS"}}

\* the files market_commentary holds a row of
CommentaryStored ==
  {db["market_commentary"][i].source_file : i \in DOMAIN db["market_commentary"]}

\* C27: every file the ledger records as SUCCESS for the kind COMMENTARY has a
\* row in market_commentary; an insert that raised is not logged as SUCCESS.
C27_SuccessMeansStored == CommentaryLogged \subseteq CommentaryStored


\* the file at the head of the loops is an unstructured report and the store
\* engine works
ReportNext ==
  /\ pc = "files" /\ queue # <<>> /\ storage = "ok"
  /\ Head(queue) \in unstructured_files({Head(queue)})

\* the ledger entries of a store for a file of the kind COMMENTARY with a status
Recorded(store, name, status) ==
  {i \in Entries(store["processing_log"], <<name, DATA_TYPE_COMMENTARY>>) :
     store["processing_log"][i].status = status}

\* the rows of market_commentary of a store that come from a file
Stored(store, name) ==
  {i \in DOMAIN store["market_commentary"] :
     store["market_commentary"][i].source_file = name}

\* C28: on a working store, a report the ledger does not record as SUCCESS is
\* attempted in every run that lists it; when the attempt gets no text or
\* empty text it writes no commentary row and leaves the report recorded as
\* FAILED_EXTRACTION with count 0, when it gets text it hands the report to
\* execute_insert and records SUCCESS; a report stored and recorded as
\* SUCCESS is never attempted again.
C28_RetryUntilExtracted ==
  [][ReportNext =>
       LET file == Head(queue)
           text == extract_text_from_file(file)
       IN /\ handled'.name = file.name
          /\ (Recorded(db, file.name, "SUCCESS") = {} /\ text \in {NULL, ""}) =>
               /\ calls' = <<>>
               /\ db'["market_commentary"] = db["market_commentary"]
               /\ Recorded(db', file.name, "FAILED_EXTRACTION")
                    = Entries(db'["processing_log"], <<file.name, DATA_TYPE_COMMENTARY>>)
               /\ \E i \in Recorded(db', file.name, "FAILED_EXTRACTION") :
                    /\ db'["processing_log"][i].records_inserted = 0
                    /\ db'["processing_log"][i].processed_timestamp = Now
          /\ (Recorded(db, file.name, "SUCCESS") = {} /\ text \notin {NULL, ""}) =>
               /\ Len(calls') = 1
               /\ calls'[1].table = "market_commentary"
               /\ calls'[1].df.rows[1]["content"] = text
               /\ Recorded(db', file.name, "SUCCESS") # {}
               /\ ~calls'[1].raised => Stored(db', file.name) # {}
          /\ (Recorded(db, file.name, "SUCCESS") # {} /\ Stored(db, file.name) # {}) =>
               /\ calls' = <<>> /\ handled'.logs = <<>>
               /\ db' = db]_vars

\* a report recorded as FAILED_EXTRACTION by the first run was delivered again
\* with text, and the second run has stored it and recorded SUCCESS
C28_Witness ==
  /\ runs = 2 /\ pc = "files" /\ ~handled.tabular /\ handled.name \in dispatched
  /\ Len(finished) >= 1
  /\ Recorded(finished[1].store, handled.name, "FAILED_EXTRACTION") # {}
  /\ Stored(finished[1].store, handled.name) = {}
  /\ Recorded(db, handled.name, "SUCCESS") # {}
  /\ Stored(db, handled.name) # {}



(***************************************************************************)
(* Properties of the sheets of a CompleteOfferLots workbook                *)
(***************************************************************************)
\* the CompleteOfferLots workbook the last handler went through
OfferLotsBook == CHOOSE f \in dir : f.name = handled.name

OfferLotsHandled ==
  /\ pc = "files" /\ storage = "ok"
  /\ Route(handled.name) = "completeofferlots"
  /\ \E f \in dir : f.name = handled.name /\ f.openable

\* find_header_row finds no header row in the k-th sheet of a workbook
Headerless(file, k) ==
  find_header_row(file.sheets[k].grid, HEADER_KEYWORDS, max_scan_rows) = NotFound

\* C29: on a working store, process_complete_offer_lots logs every sheet of the
\* workbook under the pair (filename::sheetname, OFFER), the pairs of two
\* sheets differing; a sheet without header row is logged as
\* FAILED_DYNAMIC_HEADER with count 0, makes no execute_insert call and leaves
\* no offer of its own, and the sheets after it are logged like the others.
C29_HeaderlessSheetIsolated ==
  OfferLotsHandled =>
    /\ Len(handled.logs) = Len(OfferLotsBook.sheets)
    /\ \A k \in DOMAIN OfferLotsBook.sheets :
         LET id == handled.name \o "::" \o OfferLotsBook.sheets[k].name
         IN /\ handled.logs[k].file_identifier = id
            /\ handled.logs[k].data_type = DATA_TYPE_OFFER
            /\ \A j \in DOMAIN OfferLotsBook.sheets :
                 j # k => handled.logs[j].file_identifier # id
            /\ \E i \in Entries(Ledger, <<id, DATA_TYPE_OFFER>>) :
                 /\ Ledger[i].status = handled.logs[k].status
                 /\ Ledger[i].records_inserted = handled.logs[k].count
            /\ Headerless(OfferLotsBook, k) =>
                 /\ handled.logs[k].status = "FAILED_DYNAMIC_HEADER"
                 /\ handled.logs[k].count = 0
                 /\ \A c \in DOMAIN calls : calls[c].file_identifier # id
                 /\ \A i \in DOMAIN db["auction_offers"] :
                      db["auction_offers"][i].source_file_identifier # id
            /\ ~Headerless(OfferLotsBook, k) =>
                 handled.logs[k].status \in {"SUCCESS", "FAILED_PROCESSING"}

\* the first sheet of a workbook had no header row and its second sheet has
\* stored an offer under its own ledger pair
C29_Witness ==
  /\ OfferLotsHandled
  /\ Len(OfferLotsBook.sheets) = 2
  /\ Headerless(OfferLotsBook, 1)
  /\ handled.logs[1].status = "FAILED_DYNAMIC_HEADER"
  /\ handled.logs[2].status = "SUCCESS" /\ handled.logs[2].count = 1
  /\ \E i \in DOMAIN db["auction_offers"] :
       db["auction_offers"][i].source_file_identifier = handled.logs[2].file_identifier



(***************************************************************************)
(* Properties of a repeated run                                            *)
(***************************************************************************)
\* the fields of a row that say where and when it was last written
ProvenanceCols == {"source_file_identifier", "processed_timestamp"}

\* the business fields of a row
Business(row) == [c \in DOMAIN row \ ProvenanceCols |-> row[c]]

====
